---- MODULE Spec2Model ----
(***************************************************************************)
(* A model of subpub's publication engine: the SemVer bump policy          *)
(* (version.rs), the publish-order solver (get_publish_order) and the      *)
(* orchestrator (publish) that selects, validates and processes crates.    *)
(***************************************************************************)
EXTENDS Integers, Sequences, FiniteSets, TLC

VARIABLES
    \* ---- version policy (version.rs) ----
    current_version,  \* the crate's in-source version (a Version record)
    prev_versions,    \* Vec<Version>: the versions the registry lists
    new_version,      \* Option<Version>: <<>> is None, <<v>> is Some(v)
    vpc,              \* "idle" | "input" | "bumped"
    \* ---- workspace and publish-order solver ----
    crates,           \* workspace.crates: name -> [deps, should_be_published]
    publish_order,    \* Vec<String> returned by get_publish_order
    unordered_crates, \* the crates the "Failed to determine publish order" error names
    \* ---- orchestrator (publish.rs: publish) ----
    opts,             \* the PublishOpts fields the selection reads
    pc,               \* position of publish(): see the actions
    crates_to_exclude,\* HashSet<&String> after the fixed-point expansion
    selected_crates,  \* Vec<&String>: the candidates after start_from
    sel_idx,          \* index of sel_crate in the `for sel_crate` loop
    crates_to_publish,\* the not yet visited rest of the inner `for krate`
    processed_crates, \* HashSet<&String>
    packaged,         \* history: crates handed to change detection
    uploaded,         \* history: crates whose `cargo publish` was invoked and succeeded
    wrote_manifest,   \* history: a step that writes manifests has run
    error,            \* "" or the kind of the Err publish() returned
    \* ---- versions in the processing loop (publish.rs: publish) ----
    should_adjust_version, \* the local of the `for sel_crate` body
    crate_bump_heuristic,  \* HashMap<&String, VersionBumpHeuristic>
    loaded_version,        \* history: name -> the version the loader read
    crate_log,             \* history: name -> what the loop did with the crate
    \* ---- publisher (crates.rs: Crates::publish) and its environment ----
    pub_conf,              \* after_publish_delay, index_conf, $SPUB_CRATES_COMMITTED_FILE
    last_publish_elapsed,  \* Option: seconds since last_publish_instant
    spurious_network_err_count, \* transient network errors of the current upload
    registry,              \* environment: name -> what the registry has of the crate
    rate_limiting,         \* environment: the registry rate limits the client
    crates_committed,      \* environment: the lines of the file of committed crates
    last_outcome,          \* history: result of the last `cargo publish` of the upload
    last_status,           \* history: HTTP status of the last poll (0: none yet)
    rate_limited_seen,     \* history: rate-limited attempts of the current upload
    pacing_slept,          \* history: seconds slept before the current upload
    last_instant_crate,    \* history: the crate last_publish_instant was recorded for
    \* ---- change detection (crate_details.rs: needs_publishing) ----
    pkg_source,            \* environment: the content of the crate's source
    cratesio_artifact,     \* environment: what the registry has for name and version
    detect_calls,          \* history: the calls of needs_publishing
    \* ---- manifest editing (dependencies.rs) ----
    manifest,              \* the dependency sections of a Cargo.toml
    manifest_args,         \* the arguments of write_dependency_field_value
    manifest_once,         \* history: the manifest after the first call, if any
    manifest_before,       \* history: the manifest before the first call
    \* ---- the files of the checkout (publish.rs: for_pull_request) ----
    work_tree,             \* the manifests, the packaging edits and the lockfile
    initial_commit,        \* what git_head_sha named when publish() started
    git_log,               \* git.rs: the commits of the branch, HEAD last
    git_before,            \* history: the repository before the last operation
    \* ---- pure functions of the registry clients ----
    index_krate,           \* crates_io.rs: the crate name a URL is built for
    metadata_url,          \* crates_io.rs: the URL built, if any
    cargo_output           \* cargo.rs: exit status and stderr of `cargo publish`

vars == <<current_version, prev_versions, new_version, vpc,
          crates, publish_order, unordered_crates,
          opts, pc, crates_to_exclude, selected_crates, sel_idx,
          crates_to_publish, processed_crates, packaged, uploaded,
          wrote_manifest, error,
          should_adjust_version, crate_bump_heuristic, loaded_version, crate_log,
          pub_conf, last_publish_elapsed, spurious_network_err_count, registry,
          rate_limiting, crates_committed, last_outcome, last_status,
          rate_limited_seen, pacing_slept, last_instant_crate,
          pkg_source, cratesio_artifact, detect_calls,
          manifest, manifest_args, manifest_once, manifest_before,
          work_tree, initial_commit, git_log, git_before,
          index_krate, metadata_url, cargo_output>>

versionVars == <<current_version, prev_versions, new_version, vpc>>
orderVars == <<crates, publish_order, unordered_crates>>
runVars == <<opts, pc, crates_to_exclude, selected_crates, sel_idx,
             crates_to_publish, processed_crates, packaged, uploaded,
             wrote_manifest, error>>
bumpVars == <<should_adjust_version, crate_bump_heuristic, loaded_version, crate_log>>
publisherVars == <<pub_conf, last_publish_elapsed, spurious_network_err_count, registry,
                   rate_limiting, crates_committed, last_outcome, last_status,
                   rate_limited_seen, pacing_slept, last_instant_crate>>
detectVars == <<pkg_source, cratesio_artifact, detect_calls>>
manifestVars == <<manifest, manifest_args, manifest_once, manifest_before>>
treeVars == <<work_tree, initial_commit, git_log, git_before>>
toolVars == <<index_krate, metadata_url, cargo_output>>
extVars == <<bumpVars, publisherVars, detectVars, manifestVars, treeVars, toolVars>>

(***************************************************************************)
(* Bounds                                                                  *)
(***************************************************************************)
\* longest list of previously published versions drawn for a crate
MaxPrev == 2
\* most names given with --exclude in a run
MaxExclude == 1
\* most crates of the workspace that have `publish = false`
MaxUnpublishable == 1

\* the elements of a Vec
SeqSet(seq) == {seq[i] : i \in DOMAIN seq}

(***************************************************************************)
(* semver::Version.  The numeric components drawn as inputs are 0 and 1    *)
(* (major = 0 and major /= 0 take different branches); the pre-release     *)
(* tags are EMPTY and two identifiers with "alpha" < "dev".  Build         *)
(* metadata is carried through unchanged by every operation below and is   *)
(* left out.                                                               *)
(***************************************************************************)
EMPTY == ""
Prerelease == {EMPTY, "alpha", "dev"}
Components == {0, 1}

Version(major, minor, patch, pre) ==
    [major |-> major, minor |-> minor, patch |-> patch, pre |-> pre]

InputVersions ==
    [major : Components, minor : Components, patch : Components, pre : Prerelease]

\* Prerelease's Ord: identifiers compare in ASCII order; EMPTY is handled by
\* the caller (a version without a tag is greater than the same with one).
PreRank(pre) == CASE pre = "alpha" -> 1
                  [] pre = "dev" -> 2
                  [] OTHER -> 0

\* Ord for Version: "Less" | "Equal" | "Greater"
VersionCmp(a, b) ==
    IF a.major /= b.major THEN (IF a.major < b.major THEN "Less" ELSE "Greater")
    ELSE IF a.minor /= b.minor THEN (IF a.minor < b.minor THEN "Less" ELSE "Greater")
    ELSE IF a.patch /= b.patch THEN (IF a.patch < b.patch THEN "Less" ELSE "Greater")
    ELSE IF a.pre = b.pre THEN "Equal"
    ELSE IF a.pre = EMPTY THEN "Greater"
    ELSE IF b.pre = EMPTY THEN "Less"
    ELSE IF PreRank(a.pre) < PreRank(b.pre) THEN "Less" ELSE "Greater"

\* Iterator::max over a Vec<Version>: None for an empty list, and the last
\* of several equal maxima (equal versions are identical records)
RECURSIVE IterMax(_)
IterMax(vs) ==
    IF vs = <<>> THEN <<>>
    ELSE LET rest == IterMax(Tail(vs))
         IN IF rest = <<>> THEN <<Head(vs)>>
            ELSE IF VersionCmp(Head(vs), rest[1]) = "Greater" THEN <<Head(vs)>>
            ELSE rest

\* a plausible slip: the pre-release branch is forgotten and every version
\* is incremented
bump_for_breaking_change_always_increments(version) ==
    IF version.major = 0
    THEN [version EXCEPT !.pre = EMPTY, !.minor = version.minor + 1, !.patch = 0]
    ELSE [version EXCEPT !.pre = EMPTY, !.major = version.major + 1,
                         !.minor = 0, !.patch = 0]

\* a plausible slip: a version that carries a pre-release tag is returned as
\* it is, tag included
bump_for_breaking_change_keeps_tag(version) ==
    IF version.pre /= EMPTY THEN version
    ELSE IF version.major = 0
    THEN [version EXCEPT !.minor = version.minor + 1, !.patch = 0]
    ELSE [version EXCEPT !.major = version.major + 1, !.minor = 0, !.patch = 0]

\* a plausible slip: the major == 0 case is forgotten and the major component
\* is incremented for every untagged version
bump_for_breaking_change_ignores_zero_major(version) ==
    IF version.pre /= EMPTY
    THEN [version EXCEPT !.pre = EMPTY]
    ELSE [version EXCEPT !.major = version.major + 1, !.minor = 0, !.patch = 0]

bump_for_breaking_change(version) ==
    IF version.pre /= EMPTY
    THEN [version EXCEPT !.pre = EMPTY]
    ELSE IF version.major = 0
    THEN [version EXCEPT !.minor = version.minor + 1, !.patch = 0]
    ELSE [version EXCEPT !.major = version.major + 1, !.minor = 0, !.patch = 0]

\* a plausible slip: the current version is bumped even when the registry
\* lists no previous version
maybe_bump_for_breaking_change_bumps_unpublished(prevs, current) ==
    LET latest == IterMax(prevs)
    IN IF latest /= <<>>
       THEN LET max_version == IF VersionCmp(current, latest[1]) = "Greater"
                               THEN current
                               ELSE latest[1]
            IN <<bump_for_breaking_change(max_version)>>
       ELSE <<bump_for_breaking_change(current)>>

maybe_bump_for_breaking_change(prevs, current) ==
    LET latest == IterMax(prevs)
    IN IF latest /= <<>>
       THEN LET max_version == IF VersionCmp(current, latest[1]) = "Greater"
                               THEN current
                               ELSE latest[1]
            IN <<bump_for_breaking_change(max_version)>>
       ELSE IF current.pre = EMPTY
            THEN <<>>
            ELSE <<[current EXCEPT !.pre = EMPTY]>>

\* The Compatible bump.  version.rs of this revision has no
\* maybe_bump_for_compatible_change; it is taken from the version policy of
\* the specification (4.5): without previous versions the rule is the one of
\* the Breaking bump; otherwise the maximum of the current and the latest
\* version has its tag cleared and its patch incremented
bump_for_compatible_change(version) ==
    [version EXCEPT !.pre = EMPTY, !.patch = version.patch + 1]

maybe_bump_for_compatible_change(prevs, current) ==
    LET latest == IterMax(prevs)
    IN IF latest /= <<>>
       THEN LET max_version == IF VersionCmp(current, latest[1]) = "Greater"
                               THEN current
                               ELSE latest[1]
            IN <<bump_for_compatible_change(max_version)>>
       ELSE IF current.pre = EMPTY
            THEN <<>>
            ELSE <<[current EXCEPT !.pre = EMPTY]>>

(***************************************************************************)
(* Publish-order solver (publish.rs: get_publish_order)                    *)
(***************************************************************************)
\* The crate names of the solver's own test; String's Ord compares the bytes.
CrateNames == {"A", "BA", "BB", "C"}

NameBytes(name) == CASE name = "A" -> <<65>>
                     [] name = "BA" -> <<66, 65>>
                     [] name = "BB" -> <<66, 66>>
                     [] name = "C" -> <<67>>

RECURSIVE BytesLess(_, _)
BytesLess(a, b) ==
    IF b = <<>> THEN FALSE
    ELSE IF a = <<>> THEN TRUE
    ELSE IF Head(a) /= Head(b) THEN Head(a) < Head(b)
    ELSE BytesLess(Tail(a), Tail(b))

\* a.name.cmp(&b.name) == Ordering::Less
NameLess(a, b) == BytesLess(NameBytes(a), NameBytes(b))

\* CrateDetails::deps_to_publish
deps_to_publish(details, krate) == details[krate].deps

\* The orders in which a HashMap with the keys S can be iterated
IterationOrders(S) ==
    {f \in [1..Cardinality(S) -> S] : \A i, j \in DOMAIN f : i /= j => f[i] /= f[j]}

OrderedNames(ordered) == {ordered[i].name : i \in DOMAIN ordered}

\* ordered_deps.iter().fold(1usize, |acc, ord_crate| acc + ord_crate.rank)
RECURSIVE FoldRank(_, _, _)
FoldRank(ordered, deps, i) ==
    IF i > Len(ordered) THEN 1
    ELSE (IF ordered[i].name \in deps THEN ordered[i].rank ELSE 0)
         + FoldRank(ordered, deps, i + 1)

\* One pass of `for (krate, details) in details` from position i of the
\* iteration order: a crate all of whose deps are already ordered is pushed
RECURSIVE OrderPass(_, _, _, _)
OrderPass(details, iter, i, ordered) ==
    IF i > Len(iter) THEN ordered
    ELSE LET krate == iter[i]
             deps == deps_to_publish(details, krate)
             ordered_deps == deps \cap OrderedNames(ordered)
         IN IF krate \in OrderedNames(ordered)
            THEN OrderPass(details, iter, i + 1, ordered)
            ELSE IF Cardinality(ordered_deps) = Cardinality(deps)
            THEN OrderPass(details, iter, i + 1,
                     Append(ordered, [name |-> krate, rank |-> FoldRank(ordered, deps, 1)]))
            ELSE OrderPass(details, iter, i + 1, ordered)

\* the `loop { ... if !progressed { break } }` around the passes
RECURSIVE OrderLoop(_, _, _)
OrderLoop(details, iter, ordered) ==
    LET next == OrderPass(details, iter, 1, ordered)
    IN IF Len(next) = Len(ordered) THEN ordered ELSE OrderLoop(details, iter, next)

\* a plausible slip: the comparator looks at the names only
OrderedBefore_by_name_only(a, b) == NameLess(a.name, b.name)

\* the comparator of publish_order.sort_by: rank, then name
OrderedBefore(a, b) ==
    \/ a.rank < b.rank
    \/ a.rank = b.rank /\ NameLess(a.name, b.name)

RECURSIVE InsertSorted(_, _)
InsertSorted(sorted, x) ==
    IF sorted = <<>> THEN <<x>>
    ELSE IF OrderedBefore(x, Head(sorted)) THEN <<x>> \o sorted
    ELSE <<Head(sorted)>> \o InsertSorted(Tail(sorted), x)

\* slice::sort_by (stable) with that comparator
RECURSIVE SortByRankThenName(_)
SortByRankThenName(ordered) ==
    IF ordered = <<>> THEN <<>>
    ELSE InsertSorted(SortByRankThenName(SubSeq(ordered, 1, Len(ordered) - 1)),
                      ordered[Len(ordered)])

\* a plausible slip: the final sort is missing, the crates stay in the order
\* in which the passes pushed them
get_publish_order_unsorted(details, iter) ==
    LET ordered == OrderLoop(details, iter, <<>>)
    IN [i \in DOMAIN ordered |-> ordered[i].name]

get_publish_order(details, iter) ==
    LET sorted == SortByRankThenName(OrderLoop(details, iter, <<>>))
    IN [i \in DOMAIN sorted |-> sorted[i].name]

(***************************************************************************)
(* Values of the parts of the state a specification does not use           *)
(***************************************************************************)
None == "<none>"

NoOpts == [publish_only |-> {}, exclude |-> {}, start_from |-> None,
           include_crates_dependents |-> FALSE]

VersionIdle ==
    /\ current_version = Version(0, 0, 0, EMPTY)
    /\ prev_versions = <<>>
    /\ new_version = <<>>
    /\ vpc = "idle"

RunIdle ==
    /\ opts = NoOpts
    /\ crates_to_exclude = {}
    /\ selected_crates = <<>>
    /\ sel_idx = 1
    /\ crates_to_publish = <<>>
    /\ processed_crates = {}
    /\ packaged = {}
    /\ uploaded = {}
    /\ wrote_manifest = FALSE
    /\ error = ""

BumpIdle ==
    /\ should_adjust_version = FALSE
    /\ crate_bump_heuristic = <<>>
    /\ loaded_version = <<>>
    /\ crate_log = <<>>

PublisherIdle ==
    /\ pub_conf = <<>>
    /\ last_publish_elapsed = {}
    /\ spurious_network_err_count = 0
    /\ registry = <<>>
    /\ rate_limiting = FALSE
    /\ crates_committed = {}
    /\ last_outcome = "none"
    /\ last_status = 0
    /\ rate_limited_seen = 0
    /\ pacing_slept = 0
    /\ last_instant_crate = None

DetectIdle ==
    /\ pkg_source = 0
    /\ cratesio_artifact = <<>>
    /\ detect_calls = <<>>

ManifestIdle ==
    /\ manifest = <<>>
    /\ manifest_args = <<>>
    /\ manifest_once = {}
    /\ manifest_before = <<>>

TreeIdle ==
    /\ work_tree = <<>>
    /\ initial_commit = <<>>
    /\ git_log = <<>>
    /\ git_before = <<>>

ToolIdle ==
    /\ index_krate = <<>>
    /\ metadata_url = <<>>
    /\ cargo_output = <<>>

ExtIdle == BumpIdle /\ PublisherIdle /\ DetectIdle /\ ManifestIdle /\ TreeIdle /\ ToolIdle

(***************************************************************************)
(* The version policy as a state machine: the inputs are drawn, then one   *)
(* of the two functions of version.rs is applied                           *)
(***************************************************************************)
PrevVersionLists == UNION {[1..n -> InputVersions] : n \in 0..MaxPrev}

VersionInit ==
    /\ current_version \in InputVersions
    /\ prev_versions \in PrevVersionLists
    /\ new_version = <<>>
    /\ vpc = "input"
    /\ crates = <<>>
    /\ publish_order = <<>>
    /\ unordered_crates = {}
    /\ pc = "idle"
    /\ RunIdle
    /\ ExtIdle

BumpForBreakingChange ==
    /\ vpc = "input"
    /\ new_version' = <<bump_for_breaking_change(current_version)>>
    /\ vpc' = "bumped"
    /\ UNCHANGED <<extVars, current_version, prev_versions, orderVars, runVars>>

MaybeBumpForBreakingChange ==
    /\ vpc = "input"
    /\ new_version' = maybe_bump_for_breaking_change(prev_versions, current_version)
    /\ vpc' = "maybe_bumped"
    /\ UNCHANGED <<extVars, current_version, prev_versions, orderVars, runVars>>

VersionNext == BumpForBreakingChange \/ MaybeBumpForBreakingChange

SpecVersion == VersionInit /\ [][VersionNext]_vars

(***************************************************************************)
(* The publish-order solver as a state machine: a workspace is drawn, then *)
(* get_publish_order runs under one of the map's iteration orders          *)
(***************************************************************************)
\* The workspaces over the crate names S: every dep is a workspace key (the
\* loader rejects anything else) and no crate names itself as a dependency
Workspaces(S, publishFlags) ==
    {[k \in S |-> [deps |-> d[k], should_be_published |-> p[k]]] :
        <<d, p>> \in {dp \in [S -> SUBSET S] \X [S -> publishFlags] :
                         \A k \in S : k \notin dp[1][k]}}

OrderInit ==
    /\ crates \in Workspaces(CrateNames, {TRUE})
    /\ publish_order = <<>>
    /\ unordered_crates = {}
    /\ pc = "order"
    /\ VersionIdle
    /\ RunIdle
    /\ ExtIdle

\* a plausible slip: the `!` of the filter is missing
UnorderedCrates_negation_dropped(details, order) ==
    {k \in DOMAIN details : k \in SeqSet(order)}

\* publish(), lines 296-320: the order is computed and the run fails when a
\* crate could not be ordered
UnorderedCrates(details, order) == {k \in DOMAIN details : k \notin SeqSet(order)}

ComputeOrder ==
    /\ pc = "order"
    /\ \E iter \in IterationOrders(DOMAIN crates) :
           publish_order' = get_publish_order(crates, iter)
    /\ unordered_crates' = UnorderedCrates(crates, publish_order')
    /\ IF unordered_crates' /= {}
       THEN pc' = "failed" /\ error' = "order"
       ELSE pc' = "select" /\ error' = error
    /\ UNCHANGED <<extVars, crates, versionVars, opts, crates_to_exclude, selected_crates,
                   sel_idx, crates_to_publish, processed_crates, packaged,
                   uploaded, wrote_manifest>>

OrderNext == ComputeOrder

SpecOrder == OrderInit /\ [][OrderNext]_vars

(***************************************************************************)
(* Orchestrator (publish.rs: publish)                                      *)
(***************************************************************************)
\* a plausible slip: one pass only, the dependents of the crates that pass
\* inserted are not excluded
ExpandExcluded_single_pass(details, order, excluded) ==
    excluded \cup {krate \in SeqSet(order) :
                      \E excluded_crate \in excluded :
                          excluded_crate \in deps_to_publish(details, krate)}

\* lines 322-358: crates_to_exclude, expanded until a pass inserts nothing
RECURSIVE ExpandExcluded(_, _, _)
ExpandExcluded(details, order, excluded) ==
    LET inserted == {krate \in SeqSet(order) :
                        \E excluded_crate \in excluded :
                            excluded_crate \in deps_to_publish(details, krate)}
        next == excluded \cup inserted
    IN IF next = excluded THEN excluded ELSE ExpandExcluded(details, order, next)

\* a plausible slip: one pass only, the dependents of the crates that pass
\* inserted are not included
ExpandIncluded_single_pass(details, order, excluded, included) ==
    included \cup {krate \in SeqSet(order) :
                      /\ krate \notin excluded
                      /\ details[krate].should_be_published
                      /\ \E included_crate \in included :
                            included_crate \in deps_to_publish(details, krate)}

\* lines 393-429: crates_to_include with --include-crates-dependents
RECURSIVE ExpandIncluded(_, _, _, _)
ExpandIncluded(details, order, excluded, included) ==
    LET inserted == {krate \in SeqSet(order) :
                        /\ krate \notin excluded
                        /\ details[krate].should_be_published
                        /\ \E included_crate \in included :
                              included_crate \in deps_to_publish(details, krate)}
        next == included \cup inserted
    IN IF next = included THEN included ELSE ExpandIncluded(details, order, excluded, next)

\* lines 360-435: candidate_crates
CandidateCrates(details, order, o, excluded) ==
    IF o.publish_only = {}
    THEN SelectSeq(order, LAMBDA krate :
             \/ o.start_from = krate
             \/ krate \notin excluded /\ details[krate].should_be_published)
    ELSE LET crates_to_include ==
                 IF o.include_crates_dependents
                 THEN ExpandIncluded(details, order, excluded, o.publish_only)
                 ELSE o.publish_only
         IN SelectSeq(order, LAMBDA krate : krate \in crates_to_include)

\* a plausible slip: `keep` starts out true, so nothing before start_from is
\* dropped
SelectedCrates_keeps_all(candidates, o, excluded) ==
    SelectSeq(candidates, LAMBDA krate : ~(krate = o.start_from /\ krate \in excluded))

\* lines 440-451: candidate_crates.retain_mut with the `keep` flag
RECURSIVE RetainFrom(_, _, _, _, _)
RetainFrom(candidates, i, keep, start_from, excluded) ==
    IF i > Len(candidates) THEN <<>>
    ELSE LET krate == candidates[i]
             keep_now == keep \/ krate = start_from
             retained == IF krate = start_from /\ krate \in excluded
                         THEN FALSE
                         ELSE keep_now
         IN (IF retained THEN <<krate>> ELSE <<>>)
            \o RetainFrom(candidates, i + 1, keep_now, start_from, excluded)

\* lines 437-455: selected_crates
SelectedCrates(candidates, o, excluded) ==
    IF o.start_from /= None
    THEN RetainFrom(candidates, 1, FALSE, o.start_from, excluded)
    ELSE candidates

\* a plausible slip: the dependencies of the crate are not visited
validate_crates_without_deps(details, initial_crate, parent_crate, krate, excluded_crates, visited_crates) ==
    IF krate \in visited_crates THEN {}
    ELSE IF krate \in excluded_crates
    THEN {[kind |-> "excluded", krate |-> krate, parent |-> parent_crate,
           initial |-> initial_crate]}
    ELSE IF ~details[krate].should_be_published
    THEN {[kind |-> "should_not_be_published", krate |-> krate,
           parent |-> parent_crate, initial |-> initial_crate]}
    ELSE {}

\* lines 469-574: validate_crates.  The result is the set of errors the call
\* can return, one per dependency that can be the first to fail in the
\* iteration order of `deps`; the empty set is Ok(())
RECURSIVE validate_crates(_, _, _, _, _, _)
validate_crates(details, initial_crate, parent_crate, krate, excluded_crates, visited_crates) ==
    IF krate \in visited_crates THEN {}
    ELSE IF krate \in excluded_crates
    THEN {[kind |-> "excluded", krate |-> krate, parent |-> parent_crate,
           initial |-> initial_crate]}
    ELSE IF ~details[krate].should_be_published
    THEN {[kind |-> "should_not_be_published", krate |-> krate,
           parent |-> parent_crate, initial |-> initial_crate]}
    ELSE UNION {validate_crates(details, initial_crate,
                                IF krate = initial_crate THEN None ELSE krate,
                                dep, excluded_crates, visited_crates \cup {krate}) :
                   dep \in deps_to_publish(details, krate)}

\* lines 576-593: the selected crates whose validation returned an error
\* the loop over the selected crates ends at the first error
CratesValidationErrors_until_first(details, selected, excluded) ==
    {selected[i] : i \in {i \in DOMAIN selected :
        /\ validate_crates(details, selected[i], None, selected[i], excluded, {}) /= {}
        /\ \A j \in 1..(i - 1) :
               validate_crates(details, selected[j], None, selected[j], excluded, {}) = {}}}

CratesValidationErrors(details, selected, excluded) ==
    {krate \in SeqSet(selected) :
        validate_crates(details, krate, None, krate, excluded, {}) /= {}}

\* a plausible slip: only the crate and its direct dependencies are registered
register_crates_direct_only(details, registered_crates, krate) ==
    registered_crates \cup {krate} \cup deps_to_publish(details, krate)

\* crates.rs: register_crates of what_needs_publishing, over a set of deps
RECURSIVE register_crates(_, _, _), RegisterAll(_, _, _)
register_crates(details, registered_crates, krate) ==
    IF krate \in registered_crates THEN registered_crates
    ELSE RegisterAll(details, registered_crates \cup {krate},
                     deps_to_publish(details, krate))
RegisterAll(details, registered_crates, deps) ==
    IF deps = {} THEN registered_crates
    ELSE LET dep == CHOOSE d \in deps : TRUE
         IN RegisterAll(details, register_crates(details, registered_crates, dep),
                        deps \ {dep})

\* crates.rs: Crates::what_needs_publishing
what_needs_publishing(details, krate, order) ==
    LET registered_crates == register_crates(details, {}, krate)
    IN SelectSeq(order, LAMBDA ordered : ordered \in registered_crates)

\* The workspace of a run and the options the selection reads
RunCrateNames == {"A", "BA", "BB"}

PublishOpts ==
    [publish_only : SUBSET RunCrateNames,
     exclude : {e \in SUBSET RunCrateNames : Cardinality(e) <= MaxExclude},
     start_from : RunCrateNames \cup {None},
     include_crates_dependents : BOOLEAN,
     stop_at_step : {None, "validation"}]

RunWorkspaces ==
    {w \in Workspaces(RunCrateNames, BOOLEAN) :
        Cardinality({k \in DOMAIN w : ~w[k].should_be_published}) <= MaxUnpublishable}

Init ==
    /\ crates \in RunWorkspaces
    /\ opts \in PublishOpts
    /\ publish_order = <<>>
    /\ unordered_crates = {}
    /\ pc = "order"
    /\ crates_to_exclude = {}
    /\ selected_crates = <<>>
    /\ sel_idx = 1
    /\ crates_to_publish = <<>>
    /\ processed_crates = {}
    /\ packaged = {}
    /\ uploaded = {}
    /\ wrote_manifest = FALSE
    /\ error = ""
    /\ VersionIdle
    /\ ExtIdle

\* a plausible slip: the check for an empty selection is missing
SelectCrates_without_empty_check ==
    /\ pc = "select"
    /\ crates_to_exclude' = ExpandExcluded(crates, publish_order, opts.exclude)
    /\ selected_crates' =
           SelectedCrates(CandidateCrates(crates, publish_order, opts, crates_to_exclude'),
                          opts, crates_to_exclude')
    /\ pc' = "validate"
    /\ UNCHANGED <<extVars, orderVars, versionVars, opts, sel_idx, crates_to_publish,
                   processed_crates, packaged, uploaded, wrote_manifest, error>>

\* lines 322-458: exclusion, candidates, start_from, and the empty selection
SelectCrates ==
    /\ pc = "select"
    /\ crates_to_exclude' = ExpandExcluded(crates, publish_order, opts.exclude)
    /\ selected_crates' =
           SelectedCrates(CandidateCrates(crates, publish_order, opts, crates_to_exclude'),
                          opts, crates_to_exclude')
    /\ IF selected_crates' = <<>>
       THEN pc' = "failed" /\ error' = "selection"
       ELSE pc' = "validate" /\ error' = error
    /\ UNCHANGED <<extVars, orderVars, versionVars, opts, sel_idx, crates_to_publish,
                   processed_crates, packaged, uploaded, wrote_manifest>>

\* lines 576-602: validation of every selected crate
ValidateCrates ==
    /\ pc = "validate"
    /\ crate_log' = [krate \in CratesValidationErrors(crates, selected_crates,
                                                      crates_to_exclude) |->
                        validate_crates(crates, krate, None, krate, crates_to_exclude, {})]
    /\ IF crate_log' /= <<>>
       THEN pc' = "failed" /\ error' = "validation"
       ELSE IF opts.stop_at_step = "validation"
       THEN pc' = "done" /\ error' = error
       ELSE pc' = "sel" /\ error' = error
    /\ UNCHANGED <<publisherVars, detectVars, manifestVars, treeVars, toolVars,
                   should_adjust_version, crate_bump_heuristic, loaded_version,
                   orderVars, versionVars, opts, crates_to_exclude, selected_crates,
                   sel_idx, crates_to_publish, processed_crates, packaged,
                   uploaded, wrote_manifest>>

\* a plausible slip: the crates already processed stay in the list
NotYetProcessed_keeping_all(needed, processed) == needed

\* lines 752-755: crates_to_publish.into_iter().partition(..), second half
NotYetProcessed(needed, processed) ==
    SelectSeq(needed, LAMBDA krate : krate \notin processed)

\* lines 681-766, the head of one iteration of `for sel_crate`: a crate that
\* was already processed is skipped; otherwise the manifest of sel_crate is
\* synchronised with the crates ordered before it (write_dependency_version),
\* and the crates to publish for it are computed and split from the ones
\* already processed; an empty what_needs_publishing is the other `continue`
BeginSelected ==
    /\ pc = "sel"
    /\ sel_idx <= Len(selected_crates)
    /\ IF selected_crates[sel_idx] \in processed_crates
       THEN /\ sel_idx' = sel_idx + 1
            /\ UNCHANGED <<pc, crates_to_publish, wrote_manifest>>
       ELSE LET needed == what_needs_publishing(crates, selected_crates[sel_idx],
                                                publish_order)
            IN /\ wrote_manifest' = TRUE
               /\ IF needed = <<>>
                  THEN /\ sel_idx' = sel_idx + 1
                       /\ UNCHANGED <<pc, crates_to_publish>>
                  ELSE /\ crates_to_publish' = NotYetProcessed(needed, processed_crates)
                       /\ pc' = "krate"
                       /\ UNCHANGED sel_idx
    /\ UNCHANGED <<extVars, orderVars, versionVars, opts, crates_to_exclude, selected_crates,
                   processed_crates, packaged, uploaded, error>>

\* lines 768-891: the places of the body of `for krate in crates_to_publish`
\* where a `?` returns the error: crate_versions and adjust_version (774,
\* 787), needs_publishing (813), maybe_bump_version (860-863), the upload
\* and the visibility poll inside workspace.publish (870-878), and
\* write_dependency_version (797-805, 886-888)
ProcessSteps == {"adjustment", "detection", "bump", "upload", "poll", "propagation"}

\* a plausible slip: the crate is marked processed before the step that fails
ProcessedAfter_despite_failure(processed, krate, failed_step) == processed \cup {krate}

\* line 891: processed_crates.insert(krate), reached when no `?` returned
ProcessedAfter(processed, krate, failed_step) ==
    IF failed_step = None THEN processed \cup {krate} ELSE processed

\* lines 768-891, one iteration of `for krate in crates_to_publish`: version
\* adjustment and change detection, then either "does not need to be
\* published" or bump, upload and visibility poll, then the propagation into
\* the manifests and processed_crates.insert(krate).  Any `?` of the body
\* ends the run; needs_publishing is the verdict of the change detection.
ProcessCrate ==
    /\ pc = "krate"
    /\ crates_to_publish /= <<>>
    /\ LET krate == Head(crates_to_publish)
       IN \E needs_publishing \in BOOLEAN, failed_step \in ProcessSteps \cup {None} :
            /\ failed_step \in {"bump", "upload", "poll"} => needs_publishing
            /\ failed_step \in {"adjustment", "detection"} => ~needs_publishing
            /\ packaged' = IF failed_step = "adjustment" THEN packaged
                           ELSE packaged \cup {krate}
            /\ uploaded' = IF needs_publishing /\ failed_step \in {None, "poll", "propagation"}
                           THEN uploaded \cup {krate}
                           ELSE uploaded
            /\ processed_crates' = ProcessedAfter(processed_crates, krate, failed_step)
            /\ IF failed_step = None
               THEN /\ crates_to_publish' = Tail(crates_to_publish)
                    /\ UNCHANGED <<pc, error>>
               ELSE /\ pc' = "failed"
                    /\ error' = failed_step
                    /\ UNCHANGED crates_to_publish
    /\ UNCHANGED <<extVars, orderVars, versionVars, opts, crates_to_exclude, selected_crates,
                   sel_idx, wrote_manifest>>

\* line 893: processed_crates.insert(sel_crate), and the next sel_crate
EndSelected ==
    /\ pc = "krate"
    /\ crates_to_publish = <<>>
    /\ processed_crates' = processed_crates \cup {selected_crates[sel_idx]}
    /\ sel_idx' = sel_idx + 1
    /\ pc' = "sel"
    /\ UNCHANGED <<extVars, orderVars, versionVars, opts, crates_to_exclude, selected_crates,
                   crates_to_publish, packaged, uploaded, wrote_manifest, error>>

\* line 921: Ok(())
Finish ==
    /\ pc = "sel"
    /\ sel_idx > Len(selected_crates)
    /\ pc' = "done"
    /\ UNCHANGED <<extVars, orderVars, versionVars, opts, crates_to_exclude, selected_crates,
                   sel_idx, crates_to_publish, processed_crates, packaged, uploaded,
                   wrote_manifest, error>>

Next ==
    \/ ComputeOrder
    \/ SelectCrates
    \/ ValidateCrates
    \/ BeginSelected
    \/ ProcessCrate
    \/ EndSelected
    \/ Finish

Spec == Init /\ [][Next]_vars

(***************************************************************************)
(* The versions in the processing loop.  The same `for sel_crate` loop of  *)
(* publish(), for runs that passed validation, with what the first model   *)
(* of the loop leaves out: the version every crate carries, the registry's *)
(* listing of the crate, the version options and the bump heuristic.       *)
(***************************************************************************)
\* most names given with --bump-major and --bump-compatible together
MaxOverrides == 3
\* most entries of --publish-version, and most of --pre-bump-version
MaxPinned == 1
\* most names given with --publish-only
MaxPublishOnly == 1
\* most crates of the workspace whose loaded version carries a pre-release tag
MaxTagged == 1

\* the versions the manifests of the workspace carry when they are loaded
LoadedVersions == {Version(0, 1, 0, EMPTY), Version(0, 1, 0, "dev")}

\* the versions given with --publish-version and with --pre-bump-version
PublishVersion == Version(1, 1, 0, EMPTY)
PreBumpVersion == Version(0, 1, 1, EMPTY)

\* external/crates_io.rs: CratesIoCrateVersion
CratesIoCrateVersion(version, yanked) == [version |-> version, yanked |-> yanked]

\* what crates_io::crate_versions can return for a crate: nothing (a 404),
\* one version that is not yanked, one version that is
RegistryListings ==
    {<<>>,
     <<CratesIoCrateVersion(Version(0, 1, 0, EMPTY), FALSE)>>,
     <<CratesIoCrateVersion(Version(1, 0, 0, EMPTY), TRUE)>>}

\* prev_versions.into_iter().map(|vers| vers.version).collect()
ListedVersions(listing) == [i \in DOMAIN listing |-> listing[i].version]

\* adjust_version without the filter on `yanked`
adjust_version_counting_yanked(version, listing) ==
    IterMax(ListedVersions(listing) \o <<version>>)[1]

\* crate_details.rs: adjust_version, the version the manifest carries after it
adjust_version(version, listing) ==
    LET not_yanked == SelectSeq(listing, LAMBDA prev_version : ~prev_version.yanked)
    IN IterMax(ListedVersions(not_yanked) \o <<version>>)[1]

\* crate_details.rs: maybe_bump_version, the Option the match evaluates to
maybe_bump_version(version, listed, bump_mode) ==
    IF bump_mode = "Breaking"
    THEN maybe_bump_for_breaking_change(listed, version)
    ELSE maybe_bump_for_compatible_change(listed, version)

\* a plausible slip: a dependency bumped with a breaking change is not looked for
bump_heuristic_any_compatible(o, details, krate, heuristics) ==
    IF krate \in o.crates_to_bump_majorly THEN "Breaking"
    ELSE IF krate \in o.crates_to_bump_compatibly THEN "Compatible"
    ELSE IF \E dep \in deps_to_publish(details, krate) :
                dep \in DOMAIN heuristics /\ heuristics[dep] = "Compatible"
    THEN "Compatible"
    ELSE "Breaking"

\* a plausible slip: --bump-compatible is looked up before --bump-major
bump_heuristic_compatible_first(o, details, krate, heuristics) ==
    IF krate \in o.crates_to_bump_compatibly THEN "Compatible"
    ELSE IF krate \in o.crates_to_bump_majorly THEN "Breaking"
    ELSE IF \E dep \in deps_to_publish(details, krate) :
                dep \in DOMAIN heuristics /\ heuristics[dep] = "Compatible"
    THEN IF \E dep \in deps_to_publish(details, krate) :
                dep \in DOMAIN heuristics /\ heuristics[dep] = "Breaking"
         THEN "Breaking"
         ELSE "Compatible"
    ELSE "Breaking"

\* publish.rs lines 816-858: bump_heuristic
bump_heuristic(o, details, krate, heuristics) ==
    IF krate \in o.crates_to_bump_majorly THEN "Breaking"
    ELSE IF krate \in o.crates_to_bump_compatibly THEN "Compatible"
    ELSE IF \E dep \in deps_to_publish(details, krate) :
                dep \in DOMAIN heuristics /\ heuristics[dep] = "Compatible"
    THEN IF \E dep \in deps_to_publish(details, krate) :
                dep \in DOMAIN heuristics /\ heuristics[dep] = "Breaking"
         THEN "Breaking"
         ELSE "Compatible"
    ELSE "Breaking"

\* a HashMap<String, Version> with at most n entries, every one with value v
VersionMaps(S, v, n) ==
    {[k \in D |-> v] : D \in {D \in SUBSET S : Cardinality(D) <= n}}

\* The options of these runs.  A run is given bump overrides (--bump-major,
\* --bump-compatible) or version options (--publish-version,
\* --pre-bump-version, --disable-version-adjustment), not both.
BumpOpts ==
    {o \in [publish_only : {p \in SUBSET RunCrateNames : Cardinality(p) <= MaxPublishOnly},
            exclude : {{}},
            start_from : {None},
            include_crates_dependents : {FALSE},
            crates_to_bump_majorly : SUBSET RunCrateNames,
            crates_to_bump_compatibly : SUBSET RunCrateNames,
            pre_bump_versions : VersionMaps(RunCrateNames, PreBumpVersion, MaxPinned),
            publish_versions : VersionMaps(RunCrateNames, PublishVersion, MaxPinned),
            no_version_adjustment : BOOLEAN,
            for_pull_request : BOOLEAN] :
        /\ Cardinality(o.crates_to_bump_majorly)
             + Cardinality(o.crates_to_bump_compatibly) <= MaxOverrides
        /\ \/ o.crates_to_bump_majorly \cup o.crates_to_bump_compatibly = {}
           \/ /\ DOMAIN o.pre_bump_versions \cup DOMAIN o.publish_versions = {}
              /\ ~o.no_version_adjustment}

\* The workspaces of these runs: every crate is publishable and depends only
\* on crates whose name sorts before its own (no cycle)
BumpWorkspaces ==
    {[k \in RunCrateNames |->
         [deps |-> d[k], should_be_published |-> TRUE, version |-> v[k]]] :
        <<d, v>> \in {dv \in [RunCrateNames -> SUBSET RunCrateNames]
                              \X [RunCrateNames -> LoadedVersions] :
                         /\ \A k \in RunCrateNames :
                                \A dep \in dv[1][k] : NameLess(dep, k)
                         /\ Cardinality({k \in RunCrateNames : dv[2][k].pre /= EMPTY})
                                <= MaxTagged}}

\* The files of a checkout of the workspace whose manifests carry the
\* versions of `details`: per crate the package version, the version field
\* of the entry of each dependency and the dependencies whose entry has a
\* path field (a workspace dependency is a path dependency); the crates
\* whose packaging edits (dev-dependencies stripped, README.md generated)
\* are in the tree; the version Cargo.lock has for each package
CheckedOut(details) ==
    [manifests |-> [k \in DOMAIN details |->
                       [version |-> details[k].version,
                        dep_version |-> [dep \in details[k].deps |->
                                            details[dep].version],
                        dep_path |-> details[k].deps]],
     packaging |-> {},
     lockfile |-> [k \in DOMAIN details |-> details[k].version]]

\* crate_details.rs: write_own_version, the file it writes
write_own_version(tree, krate, version) ==
    [tree EXCEPT !.manifests[krate].version = version]

\* the version is written and the path fields are left in place
write_dependency_version_keeping_path(tree, dep, version, fields_to_remove) ==
    [tree EXCEPT !.manifests =
        [k \in DOMAIN tree.manifests |->
            [tree.manifests[k] EXCEPT
                !.dep_version = [d \in DOMAIN @ |-> IF d = dep THEN version ELSE @[d]]]]]

\* crate_details.rs: write_dependency_version(dep, version) called on every
\* crate of the workspace, as `for (_, details) in workspace.crates.iter()`
\* does: in each entry that names dep the version field is overwritten and
\* the fields of fields_to_remove are removed
write_dependency_version(tree, dep, version, fields_to_remove) ==
    [tree EXCEPT !.manifests =
        [k \in DOMAIN tree.manifests |->
            LET toml == tree.manifests[k]
            IN [toml EXCEPT
                   !.dep_version = [d \in DOMAIN toml.dep_version |->
                                       IF d = dep THEN version
                                       ELSE toml.dep_version[d]],
                   !.dep_path = IF "path" \in fields_to_remove
                                THEN toml.dep_path \ {dep}
                                ELSE toml.dep_path]]]

\* crate_details.rs: adjust_version, the bool it returns
did_adjust_version(version, listing) == adjust_version(version, listing) /= version

\* lines 716-733: the entries of sel_crate's manifest that name a crate
\* placed before sel_crate in publish_order take that crate's version
SyncWithPrevCrates(tree, details, sel_crate) ==
    [tree EXCEPT !.manifests[sel_crate].dep_version =
        [d \in DOMAIN tree.manifests[sel_crate].dep_version |->
            IF \E i, j \in DOMAIN publish_order :
                   /\ publish_order[i] = d
                   /\ publish_order[j] = sel_crate
                   /\ i < j
            THEN details[d].version
            ELSE tree.manifests[sel_crate].dep_version[d]]]

\* a reset that leaves the files as they are
git_hard_reset_keeping_files(tree, commit) == tree

\* git_hard_reset(root, initial_commit): the files are those of the commit
git_hard_reset(tree, commit) == commit

\* cargo_update_workspace: Cargo.lock follows the manifests
cargo_update_workspace(tree) ==
    [tree EXCEPT !.lockfile = [k \in DOMAIN tree.manifests |->
                                  tree.manifests[k].version]]

\* lines 901-916, `for krate in processed_crates`: the crate's own version
\* and every entry naming it are written again, no field is removed
RECURSIVE ReapplyVersions(_, _, _)
ReapplyVersions(tree, details, processed) ==
    IF processed = {} THEN tree
    ELSE LET krate == CHOOSE k \in processed : TRUE
             version == details[krate].version
         IN ReapplyVersions(
                write_dependency_version(write_own_version(tree, krate, version),
                                         krate, version, {}),
                details, processed \ {krate})

\* The state of publish() when the `for sel_crate` loop is entered
BumpInit ==
    /\ crates \in BumpWorkspaces
    /\ opts \in BumpOpts
    /\ \E iter \in IterationOrders(DOMAIN crates) :
           publish_order = get_publish_order(crates, iter)
    /\ unordered_crates = {}
    /\ crates_to_exclude = {}
    /\ selected_crates = SelectedCrates(CandidateCrates(crates, publish_order, opts, {}),
                                        opts, {})
    /\ selected_crates /= <<>>
    /\ pc = "sel"
    /\ sel_idx = 1
    /\ crates_to_publish = <<>>
    /\ processed_crates = {}
    /\ packaged = {}
    /\ uploaded = {}
    /\ wrote_manifest = FALSE
    /\ error = ""
    /\ should_adjust_version = FALSE
    /\ crate_bump_heuristic = <<>>
    /\ loaded_version = [k \in DOMAIN crates |-> crates[k].version]
    /\ crate_log = <<>>
    /\ work_tree = CheckedOut(crates)
    /\ initial_commit = work_tree
    /\ git_log = <<>>
    /\ git_before = <<>>
    /\ VersionIdle
    /\ PublisherIdle
    /\ DetectIdle
    /\ ManifestIdle
    /\ ToolIdle

\* the position of publish() once `for sel_crate` has advanced to index idx:
\* the head of the next iteration, or the end of the loop
AfterSelected(idx) == IF idx > Len(selected_crates) THEN "done" ELSE "sel"

\* lines 681-766, the head of one iteration of `for sel_crate`:
\* should_adjust_version with the write of the --publish-version or the
\* --pre-bump-version entry of sel_crate, the dependency entries of
\* sel_crate brought to the versions of the crates before it, then
\* what_needs_publishing and the partition by processed_crates
BumpBeginSelected ==
    /\ pc = "sel"
    /\ sel_idx <= Len(selected_crates)
    /\ LET sel_crate == selected_crates[sel_idx]
           needed == what_needs_publishing(crates, sel_crate, publish_order)
       IN IF sel_crate \in processed_crates
          THEN /\ sel_idx' = sel_idx + 1
               /\ pc' = AfterSelected(sel_idx')
               /\ UNCHANGED <<crates, should_adjust_version, crates_to_publish,
                              wrote_manifest, work_tree>>
          ELSE /\ IF opts.no_version_adjustment
                  THEN /\ should_adjust_version' = FALSE
                       /\ UNCHANGED crates
                  ELSE IF sel_crate \in DOMAIN opts.publish_versions
                  THEN /\ should_adjust_version' = FALSE
                       /\ crates' = [crates EXCEPT ![sel_crate].version =
                                         opts.publish_versions[sel_crate]]
                  ELSE IF sel_crate \in DOMAIN opts.pre_bump_versions
                  THEN /\ should_adjust_version' = TRUE
                       /\ crates' = [crates EXCEPT ![sel_crate].version =
                                         opts.pre_bump_versions[sel_crate]]
                  ELSE /\ should_adjust_version' = TRUE
                       /\ UNCHANGED crates
               /\ work_tree' = SyncWithPrevCrates(
                                   write_own_version(work_tree, sel_crate,
                                                     crates'[sel_crate].version),
                                   crates', sel_crate)
               /\ wrote_manifest' = TRUE
               /\ IF needed = <<>>
                  THEN /\ sel_idx' = sel_idx + 1
                       /\ pc' = AfterSelected(sel_idx')
                       /\ UNCHANGED crates_to_publish
                  ELSE /\ crates_to_publish' = NotYetProcessed(needed, processed_crates)
                       /\ pc' = "krate"
                       /\ UNCHANGED sel_idx
    /\ UNCHANGED <<versionVars, publisherVars, detectVars, manifestVars, toolVars,
                   initial_commit, git_log, git_before, publish_order, unordered_crates, opts,
                   crates_to_exclude, selected_crates, processed_crates, packaged,
                   uploaded, error, crate_bump_heuristic, loaded_version, crate_log>>

\* lines 768-891, one iteration of `for krate in crates_to_publish`.  When
\* adjust_version changed the version, every dependency entry of the
\* workspace that names krate is rewritten before needs_publishing runs;
\* crate_log keeps what those entries held at that point (dep_entries).  The
\* registry's listing of krate and the verdict of the change detection are
\* inputs; the registry can only serve an artifact for a version it lists.
\* The packaging edits of an uploaded crate stay in the tree: the publisher
\* called at line 870 leaves them in place.  At the end the entries that
\* name krate take its version and lose their path field.  Any `?` of the
\* body ends the run with the error.
\* After the last krate of sel_crate comes line 893,
\* processed_crates.insert(sel_crate), and the loop moves to the next
\* sel_crate.
BumpProcessCrate ==
    /\ pc = "krate"
    /\ crates_to_publish /= <<>>
    /\ \/ /\ pc' = "failed"
          /\ error' = "processing"
          /\ UNCHANGED <<crates, crate_bump_heuristic, crate_log, packaged,
                         uploaded, processed_crates, crates_to_publish, sel_idx,
                         work_tree>>
       \/ \E listing \in RegistryListings, needs_publishing \in BOOLEAN :
            LET krate == Head(crates_to_publish)
                adjusted == IF should_adjust_version
                            THEN adjust_version(crates[krate].version, listing)
                            ELSE crates[krate].version
                did_adjust == /\ should_adjust_version
                              /\ did_adjust_version(crates[krate].version, listing)
                detected == IF did_adjust
                            THEN write_dependency_version(
                                     write_own_version(work_tree, krate, adjusted),
                                     krate, adjusted, {})
                            ELSE work_tree
                bumps == needs_publishing /\ should_adjust_version
                heuristic == IF bumps
                             THEN bump_heuristic(opts, crates, krate, crate_bump_heuristic)
                             ELSE "None"
                bumped == IF bumps
                          THEN maybe_bump_version(adjusted, ListedVersions(listing),
                                                  heuristic)
                          ELSE <<>>
                version == IF bumped /= <<>> THEN bumped[1] ELSE adjusted
                written == write_dependency_version(
                               write_own_version(detected, krate, version),
                               krate, version, {"path"})
            IN /\ ~needs_publishing =>
                      \E i \in DOMAIN listing : listing[i].version = adjusted
               /\ crates' = [crates EXCEPT ![krate].version = version]
               /\ work_tree' = [written EXCEPT !.packaging =
                                    IF needs_publishing THEN @ \cup {krate} ELSE @]
               /\ crate_bump_heuristic' =
                      IF bumps
                      THEN (krate :> heuristic) @@ crate_bump_heuristic
                      ELSE crate_bump_heuristic
               /\ crate_log' = crate_log @@
                      (krate :> [prev_versions |-> listing, adjusted |-> adjusted,
                                 heuristic |-> heuristic, bumped |-> bumped,
                                 published |-> needs_publishing, version |-> version,
                                 adjust_ran |-> should_adjust_version,
                                 before |-> crates[krate].version,
                                 did_adjust_version |-> did_adjust,
                                 dep_entries |->
                                     {detected.manifests[k].dep_version[krate] :
                                          k \in {k \in DOMAIN crates :
                                                     krate \in crates[k].deps}}])
               /\ packaged' = packaged \cup {krate}
               /\ uploaded' = IF needs_publishing THEN uploaded \cup {krate} ELSE uploaded
               /\ crates_to_publish' = Tail(crates_to_publish)
               /\ IF crates_to_publish' = <<>>
                  THEN /\ processed_crates' =
                              processed_crates \cup {krate, selected_crates[sel_idx]}
                       /\ sel_idx' = sel_idx + 1
                       /\ pc' = AfterSelected(sel_idx')
                  ELSE /\ processed_crates' = processed_crates \cup {krate}
                       /\ UNCHANGED <<pc, sel_idx>>
               /\ UNCHANGED error
    /\ UNCHANGED <<versionVars, publisherVars, detectVars, manifestVars, toolVars,
                   initial_commit, git_log, git_before, publish_order, unordered_crates, opts,
                   crates_to_exclude, selected_crates, wrote_manifest,
                   should_adjust_version, loaded_version>>

\* lines 896-919, `if opts.for_pull_request`: the hard reset to
\* initial_commit, the versions written again, the lockfile refreshed
ForPullRequest ==
    /\ pc = "done"
    /\ opts.for_pull_request
    /\ work_tree' = cargo_update_workspace(
                        ReapplyVersions(git_hard_reset(work_tree, initial_commit),
                                        crates, processed_crates))
    /\ pc' = "pull_request"
    /\ UNCHANGED <<versionVars, orderVars, bumpVars, publisherVars, detectVars,
                   manifestVars, toolVars, initial_commit, git_log, git_before, opts,
                   crates_to_exclude, selected_crates, sel_idx, crates_to_publish,
                   processed_crates, packaged, uploaded, wrote_manifest, error>>

BumpNext ==
    \/ BumpBeginSelected
    \/ BumpProcessCrate
    \/ ForPullRequest

SpecBump == BumpInit /\ [][BumpNext]_vars

(***************************************************************************)
(* The publisher (crates.rs: Crates::publish), called by the processing    *)
(* loop for one crate after the other.  Time is counted in whole seconds   *)
(* since last_publish_instant and stops being counted at MaxElapsed.  The  *)
(* registry, its index, its rate limiter and the file of committed crates  *)
(* are the environment.                                                    *)
(***************************************************************************)
\* most crates handed to Crates::publish in a run
MaxUploads == 2
\* longest --after-publish-delay, in seconds
MaxDelay == 2
\* the count of rate-limited attempts of an upload stops at this value
MaxRateLimitedCounted == 2

\* the value from which on elapsed seconds are no longer told apart
MaxElapsed == MaxDelay + 1

\* crates.rs line 151: Duration::from_secs(64)
rate_limit_delay == 64
\* crates.rs line 169: Duration::from_millis(2500), in whole seconds
does_crate_exist_delay == 2500 \div 1000
\* crates.rs line 189: Duration::from_secs(2)
crates_committed_delay == 2
\* the backoff after a transient network error and the number of such
\* errors an upload survives (specification 4.7: about 30 s, 8 attempts)
spurious_network_err_delay == 30
spurious_network_err_limit == 8

\* the version every crate of the queue is uploaded with, and the version
\* the registry may list of it from before the run
UploadVersion == "0.2.0"
ListedVersion == "0.1.0"

\* Option<u64> and Option<Instant>: the empty set for None, {n} for Some(n)
Some(n) == {n}
Unwrap(option) == CHOOSE n \in option : TRUE

\* Instant::elapsed() after a further `secs` seconds
Advance(elapsed, secs) ==
    {IF e + secs > MaxElapsed THEN MaxElapsed ELSE e + secs : e \in elapsed}

\* a plausible slip: the comparison is the wrong way round, so no sleep
\* happens when the delay has not passed yet
pacing_sleep_inverted(elapsed, after_publish_delay) ==
    IF elapsed /= {} /\ after_publish_delay /= {}
       /\ Unwrap(elapsed) > Unwrap(after_publish_delay)
    THEN Unwrap(elapsed) - Unwrap(after_publish_delay)
    ELSE 0

\* crates.rs lines 129-142: the seconds slept before the upload
pacing_sleep(elapsed, after_publish_delay) ==
    IF elapsed /= {} /\ after_publish_delay /= {}
       /\ Unwrap(elapsed) < Unwrap(after_publish_delay)
    THEN Unwrap(after_publish_delay) - Unwrap(elapsed)
    ELSE 0

\* a plausible slip: the transient signature is looked for first
PublishError_spurious_first(stderr) ==
    IF "Temporary failure in name resolution" \in stderr THEN "SpuriousNetworkError"
    ELSE IF "You have published too many crates" \in stderr THEN "RateLimited"
    ELSE "Any"

\* cargo.rs lines 133-150 (publish_crate): the error a failed `cargo publish`
\* is turned into, from the signatures its stderr contains
PublishError(stderr) ==
    IF "You have published too many crates" \in stderr THEN "RateLimited"
    ELSE IF "Temporary failure in name resolution" \in stderr
    THEN "SpuriousNetworkError"
    ELSE "Any"

\* what `cargo publish` can print on failure
Stderrs == SUBSET {"You have published too many crates",
                   "Temporary failure in name resolution"}

\* a plausible slip: a rate-limited upload is returned as an error
retry_after_rate_limit_never(err) == FALSE

\* crates.rs lines 145-162: the arm of RateLimited sleeps and lets the
\* `while let` try again, the arm of Any returns the error
retry_after_rate_limit(err) == err = "RateLimited"

\* a plausible slip: the limit is compared with >=, so the upload survives
\* one transient error less
retry_after_spurious_network_err_one_less(count) == count < spurious_network_err_limit

\* The arm of SpuriousNetworkError is not in crates.rs of this revision; it
\* follows specification 4.7: the upload is tried again until the errors
\* counted exceed the limit.  `count` includes the error just returned.
retry_after_spurious_network_err(count) == count <= spurious_network_err_limit

\* a plausible slip: a 404 is not told apart from the other failures
does_crate_exist_404_is_error(status) ==
    IF status = 200 THEN "true" ELSE "error"

\* external/crates_io.rs lines 23-51: does_crate_exist, from the status of
\* the response: Ok(false), Ok(true) or Err
does_crate_exist(status) ==
    IF status = 404 THEN "false"
    ELSE IF status /= 200 THEN "error"
    ELSE "true"

\* a plausible slip: the metadata file being there is taken for the version
\* being there
does_crate_exist_in_cratesio_index_any_line(response, version) ==
    IF response.status = 404 THEN "false"
    ELSE IF response.status /= 200 THEN "error"
    ELSE "true"

\* external/crates_io.rs lines 207-256: does_crate_exist_in_cratesio_index,
\* from the response for the metadata file; `version` is version.to_string()
does_crate_exist_in_cratesio_index(response, version) ==
    IF response.status = 404 THEN "false"
    ELSE IF response.status /= 200 THEN "error"
    ELSE IF \E i \in DOMAIN response.lines : response.lines[i] = version
    THEN "true"
    ELSE "false"

\* The registry's answers.  The HTTP API knows a version once `db` is set,
\* the index once `index` is set; the metadata file of a crate exists when
\* the index has any version of it.
ApiStatus(entry) == IF entry.db THEN 200 ELSE 404

IndexLines(entry) ==
    (IF entry.listed THEN <<ListedVersion>> ELSE <<>>)
        \o (IF entry.index THEN <<UploadVersion>> ELSE <<>>)

IndexResponse(entry) ==
    IF IndexLines(entry) = <<>>
    THEN [status |-> 404, lines |-> <<>>]
    ELSE [status |-> 200, lines |-> IndexLines(entry)]

ServerError == [status |-> 500, lines |-> <<>>]

UploadOrder == <<"A", "BA", "BB">>

\* the variables Crates::publish and its environment never touch
publisherFrame == <<versionVars, orderVars, bumpVars, detectVars, manifestVars, treeVars, toolVars, opts, crates_to_exclude,
                    selected_crates, sel_idx, packaged, wrote_manifest>>

PublishInit ==
    /\ crates_to_publish \in {SubSeq(UploadOrder, 1, n) : n \in 1..MaxUploads}
    /\ pub_conf \in [after_publish_delay : {{}} \cup {Some(d) : d \in 1..MaxDelay},
                     index_conf : BOOLEAN,
                     crates_committed_file : BOOLEAN]
    /\ registry \in [SeqSet(crates_to_publish) ->
                        [listed : BOOLEAN, db : {FALSE}, index : {FALSE}]]
    /\ rate_limiting \in BOOLEAN
    /\ crates_committed = {}
    /\ last_publish_elapsed = {}
    /\ spurious_network_err_count = 0
    /\ last_outcome = "none"
    /\ last_status = 0
    /\ rate_limited_seen = 0
    /\ pacing_slept = 0
    /\ last_instant_crate = None
    /\ pc = "call"
    /\ processed_crates = {}
    /\ uploaded = {}
    /\ error = ""
    /\ crates = <<>>
    /\ publish_order = <<>>
    /\ unordered_crates = {}
    /\ opts = NoOpts
    /\ crates_to_exclude = {}
    /\ selected_crates = <<>>
    /\ sel_idx = 1
    /\ packaged = {}
    /\ wrote_manifest = FALSE
    /\ VersionIdle
    /\ BumpIdle
    /\ DetectIdle
    /\ ManifestIdle
    /\ TreeIdle
    /\ ToolIdle

\* Crates::publish returns the error
PublishFails(kind) ==
    /\ pc' = "failed"
    /\ error' = kind

\* Crates::publish returns Ok(()): the loop of publish() goes on to the next
\* crate, or is over
PublishReturns ==
    /\ processed_crates' = processed_crates \cup {Head(crates_to_publish)}
    /\ crates_to_publish' = Tail(crates_to_publish)
    /\ pc' = IF crates_to_publish' = <<>> THEN "done" ELSE "call"

\* line 172 and what follows the visibility polls: the instant is recorded,
\* then the file of committed crates is polled if there is one
PublishSettles ==
    /\ last_publish_elapsed' = Some(0)
    /\ last_instant_crate' = Head(crates_to_publish)
    /\ IF pub_conf.crates_committed_file
       THEN /\ pc' = "await_commit"
            /\ UNCHANGED <<processed_crates, crates_to_publish>>
       ELSE PublishReturns

\* crates.rs lines 112-142: the call, strip_dev_deps and the pacing sleep
PublishCall ==
    /\ pc = "call"
    /\ crates_to_publish /= <<>>
    /\ \/ /\ PublishFails("strip_dev_deps")
          /\ UNCHANGED <<last_publish_elapsed, pacing_slept, spurious_network_err_count,
                         last_outcome, last_status, rate_limited_seen>>
       \/ /\ pacing_slept' = pacing_sleep(last_publish_elapsed,
                                          pub_conf.after_publish_delay)
          /\ last_publish_elapsed' = Advance(last_publish_elapsed, pacing_slept')
          /\ spurious_network_err_count' = 0
          /\ last_outcome' = "none"
          /\ last_status' = 0
          /\ rate_limited_seen' = 0
          /\ pc' = "upload"
          /\ UNCHANGED error
    /\ UNCHANGED <<publisherFrame, pub_conf, registry, rate_limiting, crates_committed,
                   last_instant_crate, crates_to_publish, processed_crates, uploaded>>

\* crates.rs lines 144-162 with cargo.rs publish_crate: one `cargo publish`
\* and the arm of its error.  The registry refuses an upload for its rate
\* limit only while it is rate limiting.
UploadAttempt ==
    /\ pc = "upload"
    /\ \/ /\ uploaded' = uploaded \cup {Head(crates_to_publish)}
          /\ last_outcome' = "Ok"
          /\ pc' = "await_db"
          /\ UNCHANGED <<error, last_publish_elapsed, spurious_network_err_count,
                         rate_limited_seen>>
       \/ \E stderr \in Stderrs :
            LET err == PublishError(stderr)
                count == spurious_network_err_count + 1
            IN /\ "You have published too many crates" \in stderr => rate_limiting
               /\ last_outcome' = err
               /\ IF retry_after_rate_limit(err)
                  THEN /\ last_publish_elapsed' =
                              Advance(last_publish_elapsed, rate_limit_delay)
                       /\ rate_limited_seen' =
                              IF rate_limited_seen < MaxRateLimitedCounted
                              THEN rate_limited_seen + 1
                              ELSE rate_limited_seen
                       /\ UNCHANGED <<pc, error, spurious_network_err_count>>
                  ELSE IF err = "SpuriousNetworkError"
                  THEN /\ spurious_network_err_count' = count
                       /\ IF retry_after_spurious_network_err(count)
                          THEN /\ last_publish_elapsed' =
                                      Advance(last_publish_elapsed,
                                              spurious_network_err_delay)
                               /\ UNCHANGED <<pc, error>>
                          ELSE /\ PublishFails(err)
                               /\ UNCHANGED last_publish_elapsed
                       /\ UNCHANGED rate_limited_seen
                  ELSE /\ PublishFails(err)
                       /\ UNCHANGED <<last_publish_elapsed, spurious_network_err_count,
                                      rate_limited_seen>>
               /\ UNCHANGED uploaded
    /\ UNCHANGED <<publisherFrame, pub_conf, registry, rate_limiting, crates_committed,
                   last_instant_crate, crates_to_publish, processed_crates, last_status,
                   pacing_slept>>

\* crates.rs lines 164-172: one does_crate_exist and the sleep after a
\* `false`; after a `true` the index is polled if it is configured
PollRegistry ==
    /\ pc = "await_db"
    /\ \E status \in {ApiStatus(registry[Head(crates_to_publish)]), 500} :
         /\ last_status' = status
         /\ CASE does_crate_exist(status) = "error" ->
                   /\ PublishFails("does_crate_exist")
                   /\ UNCHANGED <<last_publish_elapsed, last_instant_crate,
                                  processed_crates, crates_to_publish>>
              [] does_crate_exist(status) = "false" ->
                   /\ last_publish_elapsed' =
                          Advance(last_publish_elapsed, does_crate_exist_delay)
                   /\ UNCHANGED <<pc, error, last_instant_crate, processed_crates,
                                  crates_to_publish>>
              [] OTHER ->
                   /\ IF pub_conf.index_conf
                      THEN /\ pc' = "await_index"
                           /\ UNCHANGED <<last_publish_elapsed, last_instant_crate,
                                          processed_crates, crates_to_publish>>
                      ELSE PublishSettles
                   /\ UNCHANGED error
    /\ UNCHANGED <<publisherFrame, pub_conf, registry, rate_limiting, crates_committed,
                   uploaded, spurious_network_err_count, last_outcome,
                   rate_limited_seen, pacing_slept>>

\* The poll of the index.  does_crate_exist_in_cratesio_index is in
\* external/crates_io.rs; the loop that calls it is not in crates.rs of this
\* revision and follows specification 4.7: it runs after the registry's API
\* has the version and before the publish instant is recorded
PollIndex ==
    /\ pc = "await_index"
    /\ \E response \in {IndexResponse(registry[Head(crates_to_publish)]), ServerError} :
         /\ last_status' = response.status
         /\ CASE does_crate_exist_in_cratesio_index(response, UploadVersion) = "error" ->
                   /\ PublishFails("does_crate_exist_in_cratesio_index")
                   /\ UNCHANGED <<last_publish_elapsed, last_instant_crate,
                                  processed_crates, crates_to_publish>>
              [] does_crate_exist_in_cratesio_index(response, UploadVersion) = "false" ->
                   /\ last_publish_elapsed' =
                          Advance(last_publish_elapsed, does_crate_exist_delay)
                   /\ UNCHANGED <<pc, error, last_instant_crate, processed_crates,
                                  crates_to_publish>>
              [] OTHER ->
                   /\ PublishSettles
                   /\ UNCHANGED error
    /\ UNCHANGED <<publisherFrame, pub_conf, registry, rate_limiting, crates_committed,
                   uploaded, spurious_network_err_count, last_outcome,
                   rate_limited_seen, pacing_slept>>

\* crates.rs lines 174-191: one read of $SPUB_CRATES_COMMITTED_FILE
PollCratesCommitted ==
    /\ pc = "await_commit"
    /\ \/ /\ PublishFails("crates_committed_file")
          /\ UNCHANGED <<last_publish_elapsed, processed_crates, crates_to_publish>>
       \/ /\ Head(crates_to_publish) \in crates_committed
          /\ PublishReturns
          /\ UNCHANGED <<error, last_publish_elapsed>>
       \/ /\ Head(crates_to_publish) \notin crates_committed
          /\ last_publish_elapsed' =
                 Advance(last_publish_elapsed, crates_committed_delay)
          /\ UNCHANGED <<pc, error, processed_crates, crates_to_publish>>
    /\ UNCHANGED <<publisherFrame, pub_conf, registry, rate_limiting, crates_committed,
                   uploaded, spurious_network_err_count, last_outcome, last_status,
                   rate_limited_seen, pacing_slept, last_instant_crate>>

\* ---- the environment ----
environmentFrame == <<publisherFrame, pub_conf, pc, error, crates_to_publish,
                      processed_crates, uploaded, spurious_network_err_count,
                      last_outcome, last_status, rate_limited_seen, pacing_slept,
                      last_instant_crate>>

\* the registry's API starts to serve an uploaded version
RegistryShows ==
    /\ \E k \in uploaded :
         /\ ~registry[k].db
         /\ registry' = [registry EXCEPT ![k].db = TRUE]
    /\ UNCHANGED <<environmentFrame, rate_limiting, crates_committed, last_publish_elapsed>>

\* the index gets the line of an uploaded version
IndexShows ==
    /\ \E k \in uploaded :
         /\ ~registry[k].index
         /\ registry' = [registry EXCEPT ![k].index = TRUE]
    /\ UNCHANGED <<environmentFrame, rate_limiting, crates_committed, last_publish_elapsed>>

\* somebody appends an uploaded crate to the file of committed crates
CrateCommitted ==
    /\ pub_conf.crates_committed_file
    /\ \E k \in uploaded \ crates_committed :
         crates_committed' = crates_committed \cup {k}
    /\ UNCHANGED <<environmentFrame, registry, rate_limiting, last_publish_elapsed>>

\* the registry starts or stops rate limiting its client
RateLimiterChanges ==
    /\ pc \notin {"failed", "done"}
    /\ rate_limiting' = ~rate_limiting
    /\ UNCHANGED <<environmentFrame, registry, crates_committed, last_publish_elapsed>>

\* a second passes
TimePasses ==
    /\ pc \notin {"failed", "done"}
    /\ last_publish_elapsed /= {}
    /\ Unwrap(last_publish_elapsed) < MaxElapsed
    /\ last_publish_elapsed' = Advance(last_publish_elapsed, 1)
    /\ UNCHANGED <<environmentFrame, registry, rate_limiting, crates_committed>>

PublishNext ==
    \/ PublishCall
    \/ UploadAttempt
    \/ PollRegistry
    \/ PollIndex
    \/ PollCratesCommitted
    \/ RegistryShows
    \/ IndexShows
    \/ CrateCommitted
    \/ RateLimiterChanges
    \/ TimePasses

SpecPublish == PublishInit /\ [][PublishNext]_vars

\* The `while let` of the upload keeps running: an upload that can be
\* attempted is attempted
SpecPublishFair == SpecPublish /\ WF_vars(UploadAttempt)

(***************************************************************************)
(* Change detection (crate_details.rs: CrateDetails::needs_publishing).    *)
(* The crate's source and the artifact the registry serves for its name    *)
(* and version are the environment; cargo packages a source into the same  *)
(* bytes every time.                                                       *)
(***************************************************************************)
\* number of different source contents of the crate
MaxContents == 2
\* most calls of needs_publishing that are recorded
MaxCalls == 2

Contents == 1..MaxContents

\* the .crate file `cargo package` makes of a source
Package(content) == <<"crate", content>>

\* what the registry may hold for the name and version: nothing, or bytes
\* (an empty artifact, or the package of some source)
NotPublished == [published |-> FALSE, yanked |-> FALSE, bytes |-> <<>>]
CratesIoArtifacts ==
    {NotPublished} \cup [published : {TRUE},
                         yanked : BOOLEAN,
                         bytes : {<<>>} \cup {Package(c) : c \in Contents}]

\* external/crates_io.rs lines 110-136: download_crate, the responses to it
DownloadResponses(artifact) ==
    {IF artifact.published
     THEN [status |-> 200, bytes |-> artifact.bytes]
     ELSE [status |-> 404, bytes |-> <<>>],
     [status |-> 500, bytes |-> <<>>]}

\* a plausible slip: whatever the registry serves counts as the crate
needs_publishing_ignores_bytes(package_ok, pkg_bytes, response) ==
    IF ~package_ok THEN "error"
    ELSE IF response.status = 404 THEN "needs-publish"
    ELSE IF response.status /= 200 THEN "error"
    ELSE "up-to-date"

\* crate_details.rs lines 432-522: Ok(true) is needs-publish, Ok(false) is
\* up-to-date
needs_publishing(package_ok, pkg_bytes, response) ==
    IF ~package_ok THEN "error"
    ELSE IF response.status = 404 THEN "needs-publish"
    ELSE IF response.status /= 200 THEN "error"
    ELSE IF response.bytes = pkg_bytes THEN "up-to-date"
    ELSE "needs-publish"

DetectInit ==
    /\ pkg_source \in Contents
    /\ cratesio_artifact \in CratesIoArtifacts
    /\ detect_calls = <<>>
    /\ crates = <<>>
    /\ publish_order = <<>>
    /\ unordered_crates = {}
    /\ opts = NoOpts
    /\ crates_to_exclude = {}
    /\ selected_crates = <<>>
    /\ sel_idx = 1
    /\ crates_to_publish = <<>>
    /\ processed_crates = {}
    /\ uploaded = {}
    /\ packaged = {}
    /\ wrote_manifest = FALSE
    /\ pc = "detect"
    /\ error = ""
    /\ VersionIdle
    /\ BumpIdle
    /\ PublisherIdle
    /\ ManifestIdle
    /\ TreeIdle
    /\ ToolIdle

detectFrame == <<versionVars, orderVars, bumpVars, publisherVars, manifestVars, treeVars, toolVars, opts,
                 crates_to_exclude, selected_crates, sel_idx, crates_to_publish,
                 processed_crates, uploaded, packaged, wrote_manifest, pc, error>>

\* one call of needs_publishing; the tweaks of prepare_for_publish are
\* reverted before the comparison, the source is as it was
NeedsPublishing ==
    /\ Len(detect_calls) < MaxCalls
    /\ \E package_ok \in BOOLEAN, response \in DownloadResponses(cratesio_artifact) :
         detect_calls' = Append(detect_calls,
             [source |-> pkg_source,
              artifact |-> cratesio_artifact,
              package_ok |-> package_ok,
              response |-> response,
              verdict |-> needs_publishing(package_ok, Package(pkg_source), response)])
    /\ UNCHANGED <<detectFrame, pkg_source, cratesio_artifact>>

\* the source of the crate is edited
SourceEdited ==
    /\ \E content \in Contents \ {pkg_source} : pkg_source' = content
    /\ UNCHANGED <<detectFrame, cratesio_artifact, detect_calls>>

\* the registry gets, or gets rid of, the artifact
RegistryArtifactChanges ==
    /\ \E artifact \in CratesIoArtifacts \ {cratesio_artifact} :
         cratesio_artifact' = artifact
    /\ UNCHANGED <<detectFrame, pkg_source, detect_calls>>

DetectNext ==
    \/ NeedsPublishing
    \/ SourceEdited
    \/ RegistryArtifactChanges

SpecDetect == DetectInit /\ [][DetectNext]_vars

(***************************************************************************)
(* Manifest editing (dependencies.rs: write_dependency_field_value).  A    *)
(* manifest is one dependency table: key -> entry, an entry being a string *)
(* (the version shorthand) or a table of fields.                           *)
(***************************************************************************)
DepKeys == {"foo", "alias"}
DepFields == {"version", "path", "package"}

NoFields == [f \in {} |-> ""]
StrEntry(version) == [str |-> TRUE, value |-> version, fields |-> NoFields]
TableEntry(fields) == [str |-> FALSE, value |-> "", fields |-> fields]

\* an entry that is neither a string nor table-like, such as `foo = 1`
OtherEntry == [str |-> FALSE, value |-> "1", fields |-> NoFields]

\* the entries a manifest is made of: shorthand, tables with and without a
\* path, a renamed package, an inherited dependency, a malformed one
DepEntries ==
    {StrEntry("1.0"),
     OtherEntry,
     TableEntry("version" :> "1.0"),
     TableEntry(("version" :> "1.0") @@ ("path" :> "../foo")),
     TableEntry(("package" :> "foo") @@ ("version" :> "1.0")),
     TableEntry("workspace" :> "true")}

Manifests == UNION {[keys -> DepEntries] : keys \in SUBSET DepKeys \ {{}}}

WriteArgs ==
    [deps : SUBSET DepKeys \ {{}},
     fields_to_remove : SUBSET DepFields,
     field : DepFields,
     field_value : {"2.0", "foo"},
     overwrite_str_value : BOOLEAN]

\* the result of visiting an entry that cannot be edited
EntryError == [str |-> FALSE, value |-> "error", fields |-> NoFields]

\* lines 81-101: edit_tablelike_dep
edit_tablelike_dep(fields, args) ==
    IF "workspace" \in DOMAIN fields THEN EntryError
    ELSE LET inserted == (args.field :> args.field_value) @@ fields
         IN TableEntry([f \in DOMAIN inserted \ args.fields_to_remove |-> inserted[f]])

\* lines 105-162: the body of the loop over the entries of a table
visit_entry(key, entry, args) ==
    IF entry = OtherEntry THEN EntryError
    ELSE IF ~entry.str
    THEN IF "package" \in DOMAIN entry.fields
         THEN IF entry.fields["package"] \in args.deps
              THEN edit_tablelike_dep(entry.fields, args)
              ELSE entry
         ELSE IF key \in args.deps
              THEN edit_tablelike_dep(entry.fields, args)
              ELSE entry
    ELSE IF key \in args.deps
         THEN IF args.overwrite_str_value
              THEN StrEntry(args.field_value)
              ELSE TableEntry((args.field :> args.field_value)
                                  @@ ("version" :> entry.value))
         ELSE entry

\* the edits made before an error are written all the same
write_dependency_field_value_partially(document, args) ==
    [key \in DOMAIN document |->
        IF visit_entry(key, document[key], args) = EntryError
        THEN document[key]
        ELSE visit_entry(key, document[key], args)]

\* lines 53-190: the manifest on disk after the call; an error returns
\* before write_toml
write_dependency_field_value(document, args) ==
    LET visited == [key \in DOMAIN document |-> visit_entry(key, document[key], args)]
    IN IF \E key \in DOMAIN visited : visited[key] = EntryError
       THEN document
       ELSE visited

\* lines 105-149: the conditions under which `modified = true` is reached for
\* an entry
dep_matches(key, entry, args) ==
    IF ~entry.str /\ "package" \in DOMAIN entry.fields
    THEN entry.fields["package"] \in args.deps
    ELSE key \in args.deps

\* a plausible slip: the file is written whether or not an entry matched
manifest_written_always(document, args) ==
    \A key \in DOMAIN document : visit_entry(key, document[key], args) /= EntryError

\* lines 169-187: write_toml is called, i.e. no entry gave an error and
\* `modified` is set
manifest_written(document, args) ==
    /\ \A key \in DOMAIN document : visit_entry(key, document[key], args) /= EntryError
    /\ \E key \in DOMAIN document : dep_matches(key, document[key], args)

\* lines 85-92, 150-157: the call returns Err
write_fails(document, args) ==
    \E key \in DOMAIN document : visit_entry(key, document[key], args) = EntryError

ManifestInit ==
    /\ manifest \in Manifests
    /\ manifest_args \in WriteArgs
    /\ manifest_once = {}
    /\ manifest_before = manifest
    /\ pc = "first"
    /\ crates = <<>>
    /\ publish_order = <<>>
    /\ unordered_crates = {}
    /\ opts = NoOpts
    /\ crates_to_exclude = {}
    /\ selected_crates = <<>>
    /\ sel_idx = 1
    /\ crates_to_publish = <<>>
    /\ processed_crates = {}
    /\ uploaded = {}
    /\ packaged = {}
    /\ wrote_manifest = FALSE
    /\ error = ""
    /\ VersionIdle
    /\ BumpIdle
    /\ PublisherIdle
    /\ DetectIdle
    /\ TreeIdle
    /\ ToolIdle

manifestFrame == <<versionVars, orderVars, bumpVars, publisherVars, detectVars, treeVars, toolVars, opts,
                   crates_to_exclude, selected_crates, sel_idx, crates_to_publish,
                   processed_crates, uploaded, packaged,
                   manifest_args, manifest_before>>

\* the first call
WriteDependencyField ==
    /\ pc = "first"
    /\ manifest' = write_dependency_field_value(manifest, manifest_args)
    /\ manifest_once' = {manifest'}
    /\ wrote_manifest' = manifest_written(manifest, manifest_args)
    /\ error' = IF write_fails(manifest, manifest_args) THEN "Err" ELSE ""
    /\ pc' = "second"
    /\ UNCHANGED manifestFrame

\* the same call again
WriteDependencyFieldAgain ==
    /\ pc = "second"
    /\ manifest' = write_dependency_field_value(manifest, manifest_args)
    /\ wrote_manifest' = manifest_written(manifest, manifest_args)
    /\ error' = IF write_fails(manifest, manifest_args) THEN "Err" ELSE ""
    /\ pc' = "done"
    /\ UNCHANGED <<manifestFrame, manifest_once>>

ManifestNext ==
    \/ WriteDependencyField
    \/ WriteDependencyFieldAgain

SpecManifest == ManifestInit /\ [][ManifestNext]_vars

(***************************************************************************)
(* Verification before publishing (publish.rs: crates_to_verify).  Every   *)
(* publishable crate of the workspace is uploaded, in publish order.       *)
(***************************************************************************)
\* publish.rs lines 619-676: crates_to_verify
crates_to_verify(o, order, details) ==
    LET initial == IF o.verify_none THEN {}
                   ELSE IF o.verify_only = {} THEN SeqSet(order)
                   ELSE o.verify_only
        from == IF o.verify_from = None THEN {}
                ELSE {order[i] : i \in {i \in DOMAIN order :
                                          \E j \in 1..i : order[j] = o.verify_from}}
    IN IF o.include_crates_dependents
       THEN ExpandIncluded(details, order, {}, initial \cup from)
       ELSE initial \cup from

VerifyInit ==
    /\ crates \in {w \in RunWorkspaces :
                      \A k \in DOMAIN w : \A dep \in w[k].deps : NameLess(dep, k)}
    /\ opts \in [verify_none : BOOLEAN,
                 verify_only : SUBSET RunCrateNames,
                 verify_from : RunCrateNames \cup {None},
                 include_crates_dependents : BOOLEAN]
    /\ \E iter \in IterationOrders(DOMAIN crates) :
           publish_order = get_publish_order(crates, iter)
    /\ crates_to_publish = SelectSeq(publish_order,
                                     LAMBDA krate : crates[krate].should_be_published)
    /\ crates_to_publish /= <<>>
    /\ pc = "krate"
    /\ crate_log = <<>>
    /\ uploaded = {}
    /\ unordered_crates = {}
    /\ crates_to_exclude = {}
    /\ selected_crates = <<>>
    /\ sel_idx = 1
    /\ processed_crates = {}
    /\ packaged = {}
    /\ wrote_manifest = FALSE
    /\ error = ""
    /\ should_adjust_version = FALSE
    /\ crate_bump_heuristic = <<>>
    /\ loaded_version = <<>>
    /\ VersionIdle
    /\ PublisherIdle
    /\ DetectIdle
    /\ ManifestIdle
    /\ TreeIdle
    /\ ToolIdle

\* crates.rs line 124 and cargo.rs lines 131-133: should_verify is the
\* membership in crates_to_verify, and `cargo publish` gets --no-verify
\* unless it is set
UploadWithVerify ==
    /\ pc = "krate"
    /\ crates_to_publish /= <<>>
    /\ LET krate == Head(crates_to_publish)
           should_verify == krate \in crates_to_verify(opts, publish_order, crates)
       IN /\ crate_log' = (krate :> [no_verify |-> ~should_verify]) @@ crate_log
          /\ uploaded' = uploaded \cup {krate}
    /\ crates_to_publish' = Tail(crates_to_publish)
    /\ pc' = IF crates_to_publish' = <<>> THEN "done" ELSE pc
    /\ UNCHANGED <<versionVars, orderVars, publisherVars, detectVars, manifestVars, treeVars, toolVars, opts,
                   crates_to_exclude, selected_crates, sel_idx, processed_crates,
                   packaged, wrote_manifest, error, should_adjust_version,
                   crate_bump_heuristic, loaded_version>>

SpecVerify == VerifyInit /\ [][UploadWithVerify]_vars

(***************************************************************************)
(* The workspace loader (crates.rs: Crates::load_workspace_crates).  The   *)
(* manifests found under the root are a list of packages, each with the    *)
(* names of its path dependencies of the three kinds.                      *)
(***************************************************************************)
\* most manifests found under the root
MaxManifests == 2

\* the packages a manifest may declare: for each kind the path dependencies
\* CrateDetails::load collects (crate_details.rs lines 71-98)
LoadedPackages ==
    {p \in [name : {"A", "BA"},
            deps : SUBSET {"A", "BA"},
            dev_deps : SUBSET {"A", "BA"},
            build_deps : SUBSET {"A", "BA"}] :
        p.name \notin p.deps \cup p.dev_deps \cup p.build_deps}

\* crates.rs lines 45-81: the crates_map, or the error of the first bail!
load_workspace_crates(cargo_tomls) ==
    LET names == {cargo_tomls[i].name : i \in DOMAIN cargo_tomls}
        crates_map == [n \in names |->
                          LET details == cargo_tomls[CHOOSE i \in DOMAIN cargo_tomls :
                                                        cargo_tomls[i].name = n]
                          IN [deps |-> details.deps,
                              dev_deps |-> details.dev_deps,
                              build_deps |-> details.build_deps,
                              should_be_published |-> TRUE]]
    IN IF \E i, j \in DOMAIN cargo_tomls : i /= j /\ cargo_tomls[i].name = cargo_tomls[j].name
       THEN [error |-> "same name", crates_map |-> <<>>]
       ELSE IF \E n \in names : \E dep \in deps_to_publish(crates_map, n) : dep \notin names
       THEN [error |-> "path dependency", crates_map |-> <<>>]
       ELSE [error |-> "", crates_map |-> crates_map]

LoadInit ==
    /\ manifest \in UNION {[1..n -> LoadedPackages] : n \in 1..MaxManifests}
    /\ manifest_args = <<>>
    /\ manifest_once = {}
    /\ manifest_before = <<>>
    /\ pc = "load"
    /\ error = ""
    /\ crates = <<>>
    /\ publish_order = <<>>
    /\ unordered_crates = {}
    /\ opts = NoOpts
    /\ crates_to_exclude = {}
    /\ selected_crates = <<>>
    /\ sel_idx = 1
    /\ crates_to_publish = <<>>
    /\ processed_crates = {}
    /\ uploaded = {}
    /\ packaged = {}
    /\ wrote_manifest = FALSE
    /\ VersionIdle
    /\ BumpIdle
    /\ PublisherIdle
    /\ DetectIdle
    /\ TreeIdle
    /\ ToolIdle

LoadWorkspaceCrates ==
    /\ pc = "load"
    /\ LET loaded == load_workspace_crates(manifest)
       IN /\ crates' = loaded.crates_map
          /\ error' = loaded.error
          /\ pc' = IF loaded.error = "" THEN "loaded" ELSE "failed"
    /\ UNCHANGED <<versionVars, bumpVars, publisherVars, detectVars, manifestVars, treeVars, toolVars,
                   publish_order, unordered_crates, opts, crates_to_exclude,
                   selected_crates, sel_idx, crates_to_publish, processed_crates,
                   uploaded, packaged, wrote_manifest>>

SpecLoad == LoadInit /\ [][LoadWorkspaceCrates]_vars

(***************************************************************************)
(* external/crates_io.rs: the URL of a crate's metadata file in the index.  *)
(* A string is the sequence of its characters.                             *)
(***************************************************************************)

\* the longest crate name built
MaxNameLen == 5

\* the characters of the names: a lowercase letter, an uppercase one and
\* one that has no case
NameChars == {"a", "B", "-"}

\* u8::to_ascii_lowercase on these characters
to_ascii_lowercase(char) == IF char = "B" THEN "b" ELSE char

\* lines 168-200
cratesio_index_crate_path(krate) ==
    IF Len(krate) = 0 THEN <<>>
    ELSE IF Len(krate) = 1 THEN <<"1">>
    ELSE IF Len(krate) = 2 THEN <<"2">>
    ELSE IF Len(krate) = 3 THEN <<"3", "/", to_ascii_lowercase(krate[1])>>
    ELSE <<to_ascii_lowercase(krate[1]), to_ascii_lowercase(krate[2]), "/",
           to_ascii_lowercase(krate[3]), to_ascii_lowercase(krate[4])>>

\* lines 258-261: format!("{}/{}/{}/{}", index_url, head_sha, crate_path, krate)
get_cratesio_index_metadata_url(index_url, head_sha, krate) ==
    index_url \o <<"/">> \o head_sha \o <<"/">>
        \o cratesio_index_crate_path(krate) \o <<"/">> \o krate

\* the two leading components of the URL, each kept as one token
IndexUrl == <<"index_url">>
HeadSha == <<"head_sha">>

IndexInit ==
    /\ index_krate \in UNION {[1..n -> NameChars] : n \in 1..MaxNameLen}
    /\ metadata_url = <<>>
    /\ cargo_output = <<>>
    /\ pc = "url"
    /\ error = ""
    /\ crates = <<>>
    /\ publish_order = <<>>
    /\ unordered_crates = {}
    /\ opts = NoOpts
    /\ crates_to_exclude = {}
    /\ selected_crates = <<>>
    /\ sel_idx = 1
    /\ crates_to_publish = <<>>
    /\ processed_crates = {}
    /\ uploaded = {}
    /\ packaged = {}
    /\ wrote_manifest = FALSE
    /\ VersionIdle
    /\ BumpIdle
    /\ PublisherIdle
    /\ DetectIdle
    /\ ManifestIdle
    /\ TreeIdle

\* does_crate_exist_in_cratesio_index, line 216: the URL it requests
IndexMetadataUrl ==
    /\ pc = "url"
    /\ metadata_url' = get_cratesio_index_metadata_url(IndexUrl, HeadSha, index_krate)
    /\ pc' = "done"
    /\ UNCHANGED <<versionVars, orderVars, bumpVars, publisherVars, detectVars,
                   manifestVars, treeVars, index_krate, cargo_output, opts,
                   crates_to_exclude, selected_crates, sel_idx, crates_to_publish,
                   processed_crates, uploaded, packaged, wrote_manifest, error>>

SpecIndex == IndexInit /\ [][IndexMetadataUrl]_vars

(***************************************************************************)
(* cargo.rs: publish_crate, what the outcome of `cargo publish` is turned  *)
(* into.  stderr is the set of the fragments it contains.                  *)
(***************************************************************************)

\* exit codes of `cargo publish`: success, an error, a panic
ExitStatuses == {0, 1, 101}

\* what stderr can contain: the two signatures and text that is neither
StderrFragments ==
    {"You have published too many crates",
     "Temporary failure in name resolution",
     "warning: manifest has no documentation",
     "error: failed to verify package tarball",
     "Temporary failure"}

\* lines 135-158: stderr is looked at only when the status is not success
publish_crate(output) ==
    IF output.status = 0 THEN "Ok" ELSE PublishError(output.stderr)

ClassifyInit ==
    /\ cargo_output \in [status : ExitStatuses, stderr : SUBSET StderrFragments]
    /\ index_krate = <<>>
    /\ metadata_url = <<>>
    /\ pc = "publish_crate"
    /\ error = ""
    /\ crates = <<>>
    /\ publish_order = <<>>
    /\ unordered_crates = {}
    /\ opts = NoOpts
    /\ crates_to_exclude = {}
    /\ selected_crates = <<>>
    /\ sel_idx = 1
    /\ crates_to_publish = <<>>
    /\ processed_crates = {}
    /\ uploaded = {}
    /\ packaged = {}
    /\ wrote_manifest = FALSE
    /\ VersionIdle
    /\ BumpIdle
    /\ PublisherIdle
    /\ DetectIdle
    /\ ManifestIdle
    /\ TreeIdle

\* one call of publish_crate
PublishCrate ==
    /\ pc = "publish_crate"
    /\ last_outcome' = publish_crate(cargo_output)
    /\ pc' = "done"
    /\ UNCHANGED <<versionVars, orderVars, bumpVars, detectVars, manifestVars,
                   treeVars, toolVars, pub_conf, last_publish_elapsed,
                   spurious_network_err_count, registry, rate_limiting,
                   crates_committed, last_status, rate_limited_seen, pacing_slept,
                   last_instant_crate, opts, crates_to_exclude, selected_crates,
                   sel_idx, crates_to_publish, processed_crates, uploaded, packaged,
                   wrote_manifest, error>>

SpecClassify == ClassifyInit /\ [][PublishCrate]_vars

(***************************************************************************)
(* git.rs: the checkpoints.  A repository is the commits of the branch,    *)
(* each with its message and its files, and the files of the working tree. *)
(* The files are told apart by the edits they carry: an edit of a tracked  *)
(* file written by the tool or the user, the dev-dependency versions       *)
(* stripped for packaging, the README.md generated for packaging.          *)
(***************************************************************************)

\* most commits a checkpoint is added to
MaxCommits == 4

CHECKPOINT_SAVE == "[subpub] CHECKPOINT_SAVE"
CHECKPOINT_REVERT == "[subpub] CHECKPOINT_REVERT"

Last(log) == log[Len(log)]

\* lines 16-72: nothing is committed when `git status --porcelain` is empty
git_checkpoint(repo, commit_msg) ==
    IF repo.tree = Last(repo.log).tree THEN repo
    ELSE [repo EXCEPT !.log = Append(@, [msg |-> commit_msg, tree |-> repo.tree])]

\* a revert that takes one commit off and stops
git_checkpoint_revert_once(repo) ==
    IF Len(repo.log) > 1 /\ Last(repo.log).msg = CHECKPOINT_REVERT
    THEN [log |-> SubSeq(repo.log, 1, Len(repo.log) - 1),
          tree |-> repo.log[Len(repo.log) - 1].tree]
    ELSE repo

\* lines 74-110: `git reset --hard HEAD~1` as long as the last commit is a
\* revert-later checkpoint
RECURSIVE git_checkpoint_revert(_)
git_checkpoint_revert(repo) ==
    IF Len(repo.log) > 1 /\ Last(repo.log).msg = CHECKPOINT_REVERT
    THEN git_checkpoint_revert([log |-> SubSeq(repo.log, 1, Len(repo.log) - 1),
                                tree |-> repo.log[Len(repo.log) - 1].tree])
    ELSE repo

\* with_git_checkpoint(root, op, func), as with_save_checkpoint of
\* checkpoint.rs: a save checkpoint, the edit, then the checkpoint of op
with_git_checkpoint(repo, commit_msg, edit) ==
    LET saved == git_checkpoint(repo, CHECKPOINT_SAVE)
    IN git_checkpoint([saved EXCEPT !.tree = @ \cup {edit}], commit_msg)

\* crate_details.rs lines 352-399: prepare_for_publish, each tweak written
\* only when there is something to write
prepare_for_publish(repo, needs_toml_write, needs_readme) ==
    LET tweaked == IF needs_toml_write
                   THEN with_git_checkpoint(repo, CHECKPOINT_REVERT, "dev-deps stripped")
                   ELSE repo
    IN IF needs_readme
       THEN with_git_checkpoint(tweaked, CHECKPOINT_REVERT, "README.md")
       ELSE tweaked

\* a checkout with one commit of the user and nothing edited
GitInit ==
    /\ git_log = <<[msg |-> "user", tree |-> {}]>>
    /\ work_tree = {}
    /\ git_before = [log |-> git_log, tree |-> work_tree]
    /\ initial_commit = <<>>
    /\ pc = "start"
    /\ error = ""
    /\ crates = <<>>
    /\ publish_order = <<>>
    /\ unordered_crates = {}
    /\ opts = NoOpts
    /\ crates_to_exclude = {}
    /\ selected_crates = <<>>
    /\ sel_idx = 1
    /\ crates_to_publish = <<>>
    /\ processed_crates = {}
    /\ uploaded = {}
    /\ packaged = {}
    /\ wrote_manifest = FALSE
    /\ VersionIdle
    /\ BumpIdle
    /\ PublisherIdle
    /\ DetectIdle
    /\ ManifestIdle
    /\ ToolIdle

\* what no operation on the repository changes
gitFrame == <<versionVars, orderVars, bumpVars, publisherVars, detectVars, manifestVars, toolVars, initial_commit, opts, crates_to_exclude, selected_crates, sel_idx, crates_to_publish, processed_crates, uploaded, packaged, wrote_manifest>>

\* the repository after an operation, and what it was before
GitStep(op, repo, err) ==
    /\ git_before' = [log |-> git_log, tree |-> work_tree]
    /\ git_log' = repo.log
    /\ work_tree' = repo.tree
    /\ pc' = op
    /\ error' = err
    /\ UNCHANGED gitFrame

\* a tracked file is edited, or the edit is undone (a manifest written by
\* write_own_version, a change of the user)
EditFiles ==
    /\ git_log /= <<>>
    /\ GitStep("edit",
               [log |-> git_log,
                tree |-> IF "edit" \in work_tree THEN work_tree \ {"edit"}
                         ELSE work_tree \cup {"edit"}],
               "")

\* git_checkpoint(root, op)
GitCheckpoint ==
    /\ Len(git_log) < MaxCommits
    /\ \E commit_msg \in {CHECKPOINT_SAVE, CHECKPOINT_REVERT, "user"} :
           GitStep("git_checkpoint",
                   git_checkpoint([log |-> git_log, tree |-> work_tree], commit_msg),
                   "")

\* git_checkpoint_revert(root)
GitCheckpointRevert ==
    /\ Len(git_log) >= 1
    /\ GitStep("git_checkpoint_revert",
               git_checkpoint_revert([log |-> git_log, tree |-> work_tree]),
               "")

\* crate_details.rs lines 459-479, the part of needs_publishing that touches
\* the checkout: prepare_for_publish, `cargo package`, git_checkpoint_revert.
\* A tweak is written when the tree does not carry it and the crate calls
\* for it.  When `cargo package` fails the error is returned before the
\* revert; otherwise the verdict follows without another write.
NeedsPublishingInCheckout ==
    /\ Len(git_log) < MaxCommits
    /\ \E needs_toml_write \in IF "dev-deps stripped" \in work_tree
                               THEN {FALSE} ELSE BOOLEAN,
          needs_readme \in IF "README.md" \in work_tree THEN {FALSE} ELSE BOOLEAN,
          package_ok \in BOOLEAN :
         LET prepared == prepare_for_publish([log |-> git_log, tree |-> work_tree],
                                             needs_toml_write, needs_readme)
         IN IF package_ok
            THEN GitStep("needs_publishing", git_checkpoint_revert(prepared), "")
            ELSE GitStep("needs_publishing", prepared, "Failed to package crate")

GitNext ==
    \/ EditFiles
    \/ GitCheckpoint
    \/ GitCheckpointRevert
    \/ NeedsPublishingInCheckout

SpecGit == GitInit /\ [][GitNext]_vars

(***************************************************************************)
(* crate_details.rs: tweak_deps_for_publishing on one dev-dependencies     *)
(* table.  `manifest` is the table, manifest_args has the crate's dev_deps *)
(* and deps and the order in which the table's entries are iterated.       *)
(***************************************************************************)

\* the entries of the table: shorthand, a table without a path, a path
\* dependency, a path dependency on the package foo under whatever key
DevDepEntries ==
    {StrEntry("1.0"),
     TableEntry("version" :> "1.0"),
     TableEntry(("version" :> "1.0") @@ ("path" :> "../foo")),
     TableEntry(("package" :> "foo") @@ ("version" :> "1.0") @@ ("path" :> "../foo"))}

\* item.get("path").is_some() && item.remove("version").is_some()
remove_version(entry) ==
    IF "path" \in DOMAIN entry.fields
    THEN TableEntry([f \in DOMAIN entry.fields \ {"version"} |-> entry.fields[f]])
    ELSE entry

\* lines 231-285, visit: the loop over the entries returns at the first
\* table entry whose key is dep or whose package is dep
RECURSIVE visit_dev_deps(_, _, _)
visit_dev_deps(dev_deps_tbl, keys, dep) ==
    IF keys = <<>> THEN dev_deps_tbl
    ELSE LET key == Head(keys)
             val == dev_deps_tbl[key]
         IN IF val.str THEN visit_dev_deps(dev_deps_tbl, Tail(keys), dep)
            ELSE IF key = dep \/ ("package" \in DOMAIN val.fields
                                  /\ val.fields["package"] = dep)
            THEN [dev_deps_tbl EXCEPT ![key] = remove_version(val)]
            ELSE visit_dev_deps(dev_deps_tbl, Tail(keys), dep)

\* lines 295-308: `for dev_dep in &self.dev_deps`, skipping deps_to_publish
RECURSIVE tweak_deps_for_publishing(_, _, _)
tweak_deps_for_publishing(dev_deps_tbl, keys, dev_deps) ==
    IF dev_deps = {} THEN dev_deps_tbl
    ELSE LET dev_dep == CHOOSE dep \in dev_deps : TRUE
         IN tweak_deps_for_publishing(visit_dev_deps(dev_deps_tbl, keys, dev_dep),
                                      keys, dev_deps \ {dev_dep})

StripInit ==
    /\ manifest \in UNION {[keys -> DevDepEntries] : keys \in SUBSET DepKeys \ {{}}}
    /\ manifest_args \in
           {a \in [dev_deps : SUBSET DepKeys, deps : SUBSET DepKeys,
                   keys : UNION {[1..n -> DepKeys] : n \in 1..2}] :
               /\ SeqSet(a.keys) = DOMAIN manifest
               /\ Len(a.keys) = Cardinality(DOMAIN manifest)}
    /\ manifest_once = {}
    /\ manifest_before = manifest
    /\ pc = "tweak"
    /\ error = ""
    /\ crates = <<>>
    /\ publish_order = <<>>
    /\ unordered_crates = {}
    /\ opts = NoOpts
    /\ crates_to_exclude = {}
    /\ selected_crates = <<>>
    /\ sel_idx = 1
    /\ crates_to_publish = <<>>
    /\ processed_crates = {}
    /\ uploaded = {}
    /\ packaged = {}
    /\ wrote_manifest = FALSE
    /\ VersionIdle
    /\ BumpIdle
    /\ PublisherIdle
    /\ DetectIdle
    /\ TreeIdle
    /\ ToolIdle

\* one call of tweak_deps_for_publishing
TweakDepsForPublishing ==
    /\ pc = "tweak"
    /\ manifest' = tweak_deps_for_publishing(manifest, manifest_args.keys,
                       manifest_args.dev_deps \ manifest_args.deps)
    /\ wrote_manifest' = (manifest' /= manifest)
    /\ pc' = "done"
    /\ UNCHANGED <<manifestFrame, manifest_once, error>>

SpecStrip == StripInit /\ [][TweakDepsForPublishing]_vars

(***************************************************************************)
(* Notions the properties are stated in                                    *)
(***************************************************************************)
RECURSIVE ReachFrom(_, _)
ReachFrom(details, S) ==
    LET next == S \cup UNION {details[k].deps : k \in S}
    IN IF next = S THEN S ELSE ReachFrom(details, next)

\* the transitive publish-relevant dependencies of k (k itself only on a cycle)
TransDeps(details, k) == ReachFrom(details, details[k].deps)

\* k with its transitive publish-relevant dependencies
DepClosure(details, k) == {k} \cup TransDeps(details, k)

OnCycle(details, k) == k \in TransDeps(details, k)

Acyclic(details) == \A k \in DOMAIN details : ~OnCycle(details, k)

\* k lies on a cycle or transitively depends on a crate that does
ReachesCycle(details, k) == \E c \in DepClosure(details, k) : OnCycle(details, c)

IndexOf(seq, x) == CHOOSE i \in DOMAIN seq : seq[i] = x

NoDuplicates(seq) == \A i, j \in DOMAIN seq : i /= j => seq[i] /= seq[j]

\* rank(P) = 1 + the sum of rank(d) over d in P.deps, for a crate that reaches no cycle
RECURSIVE SumRanks(_, _)
RankOf(details, k) == 1 + SumRanks(details, details[k].deps)
SumRanks(details, S) ==
    IF S = {} THEN 0
    ELSE LET d == CHOOSE x \in S : TRUE
         IN RankOf(details, d) + SumRanks(details, S \ {d})

\* SemVer precedence
PrecedesStrictly(a, b) == VersionCmp(a, b) = "Less"

\* max(C, max P): the element that none of the others exceeds
MaxOfCurrentAndPrevious ==
    CHOOSE m \in {current_version} \cup SeqSet(prev_versions) :
        \A v \in {current_version} \cup SeqSet(prev_versions) : VersionCmp(v, m) /= "Greater"

Cleared(v) == [v EXCEPT !.pre = EMPTY]

Incremented(v) ==
    IF v.major = 0 THEN Version(0, v.minor + 1, 0, v.pre)
    ELSE Version(v.major + 1, 0, 0, v.pre)

(***************************************************************************)
(* Properties of the publish-order solver (SpecOrder)                      *)
(***************************************************************************)
\* C3: for an acyclic, closed workspace get_publish_order returns a
\* permutation of all the crate names in which every crate comes after each
\* of its publish-relevant dependencies
C3_OrderCorrectness ==
    (pc \in {"select", "failed"} /\ Acyclic(crates)) =>
        /\ NoDuplicates(publish_order)
        /\ SeqSet(publish_order) = DOMAIN crates
        /\ \A i \in DOMAIN publish_order :
              \A d \in crates[publish_order[i]].deps :
                 \E j \in 1..(i - 1) : publish_order[j] = d

\* a crate with a dependency was ordered, in an acyclic workspace where two
\* crates end up with the same rank
C3_Witness ==
    /\ pc \in {"select", "failed"}
    /\ Acyclic(crates)
    /\ Len(publish_order) = Cardinality(DOMAIN crates)
    /\ crates["A"].deps = {"BA", "C"}
    /\ crates["BA"].deps = {"BB"}

\* C4: whatever the iteration order of the crate map, the result is the list
\* of the orderable crates in ascending (rank, name) order, with
\* rank(P) = 1 + sum of rank(d) over P.deps
C4_OrderDeterminism ==
    pc \in {"select", "failed"} =>
        /\ NoDuplicates(publish_order)
        /\ SeqSet(publish_order) = {k \in DOMAIN crates : ~ReachesCycle(crates, k)}
        /\ \A i, j \in DOMAIN publish_order :
              i < j =>
                LET ri == RankOf(crates, publish_order[i])
                    rj == RankOf(crates, publish_order[j])
                IN \/ ri < rj
                   \/ ri = rj /\ NameLess(publish_order[i], publish_order[j])

\* the example of the solver's test: BA and BB depend on A, C depends on BA
C4_Witness ==
    /\ pc \in {"select", "failed"}
    /\ crates["A"].deps = {}
    /\ crates["BA"].deps = {"A"}
    /\ crates["BB"].deps = {"A"}
    /\ crates["C"].deps = {"BA"}
    /\ publish_order = <<"A", "BA", "BB", "C">>

(***************************************************************************)
(* Properties of the version policy (SpecVersion)                          *)
(***************************************************************************)
\* C8: a version returned by the bump is strictly greater, in SemVer
\* precedence, than the current version and than every previous version
C8_BumpMonotonicity ==
    (vpc = "maybe_bumped" /\ new_version /= <<>>) =>
        /\ PrecedesStrictly(current_version, new_version[1])
        /\ \A i \in DOMAIN prev_versions :
              PrecedesStrictly(prev_versions[i], new_version[1])

\* a bump from a history whose greatest entry carries a pre-release tag and
\* exceeds the current version
C8_Witness ==
    /\ vpc = "maybe_bumped"
    /\ Len(prev_versions) = 2
    /\ new_version /= <<>>
    /\ MaxOfCurrentAndPrevious.pre /= EMPTY
    /\ MaxOfCurrentAndPrevious /= current_version

\* C9 as stated: with previous versions, the result is max(C, max P) with
\* its tag cleared and then incremented, whatever the maximum is
C9_AlwaysIncremented ==
    (vpc = "maybe_bumped" /\ prev_versions /= <<>>) =>
        new_version = <<Incremented(Cleared(MaxOfCurrentAndPrevious))>>

\* C9 amended: with previous versions, the result is max(C, max P) with its
\* tag cleared and nothing else changed when that maximum carries a
\* pre-release tag, and the increment of the maximum when it carries none
C9_ClearedOrIncremented ==
    (vpc = "maybe_bumped" /\ prev_versions /= <<>>) =>
        LET M == MaxOfCurrentAndPrevious
        IN new_version = IF M.pre /= EMPTY THEN <<Cleared(M)>> ELSE <<Incremented(M)>>

\* both cases of the amended statement: here the maximum is tagged
C9_Witness ==
    /\ vpc = "maybe_bumped"
    /\ prev_versions /= <<>>
    /\ MaxOfCurrentAndPrevious.pre /= EMPTY
    /\ new_version = <<Cleared(MaxOfCurrentAndPrevious)>>

\* C10: bump_for_breaking_change removes a pre-release tag and changes no
\* number; without a tag it increments the minor and zeroes the patch when
\* major = 0, and else increments the major and zeroes minor and patch
C10_BumpForBreakingChange ==
    vpc = "bumped" =>
        LET v == current_version
        IN new_version =
             IF v.pre /= EMPTY THEN <<Version(v.major, v.minor, v.patch, EMPTY)>>
             ELSE IF v.major = 0 THEN <<Version(0, v.minor + 1, 0, EMPTY)>>
             ELSE <<Version(v.major + 1, 0, 0, EMPTY)>>

\* 0.0.1-dev -> 0.0.1
C10_Witness ==
    /\ vpc = "bumped"
    /\ current_version = Version(0, 0, 1, "dev")
    /\ new_version = <<Version(0, 0, 1, EMPTY)>>

(***************************************************************************)
(* Properties of a publish run (Spec)                                      *)
(***************************************************************************)
\* SelectCrates has run: crates_to_exclude and selected_crates are computed
Selected == pc \in {"validate", "sel", "krate", "done"}
            \/ (pc = "failed" /\ error /= "order")

\* the for-loop over selected_crates was entered
InProcessing == pc \in {"sel", "krate", "done"}
                \/ (pc = "failed" /\ error \in ProcessSteps)

\* the crates a run has adjusted, change-detected, bumped, uploaded or
\* marked processed
Touched == packaged \cup uploaded \cup processed_crates

OrderedStrictlyBefore(a, b) ==
    /\ a \in SeqSet(publish_order)
    /\ b \in SeqSet(publish_order)
    /\ IndexOf(publish_order, a) < IndexOf(publish_order, b)

\* C1: a crate is handed to change detection only after each of its
\* publish-relevant dependencies has been processed in this run, i.e. was
\* itself change-detected and then found up-to-date or uploaded
C1_DependenciesFirst ==
    [][\A B \in packaged' \ packaged :
          \A A \in crates[B].deps : A \in processed_crates \cap packaged]_vars

\* BA is packaged after its dependency A, which was not selected itself
C1_Witness ==
    /\ "A" \in crates["BA"].deps
    /\ "A" \notin SeqSet(selected_crates)
    /\ "A" \in uploaded
    /\ "BA" \in packaged

\* C2: no crate that the processing loop is entered for, or that is
\* packaged, uploaded or processed, has an excluded or unpublishable crate
\* among itself and its transitive publish-relevant dependencies
C2_ValidationSoundness ==
    \A k \in Touched \cup SeqSet(crates_to_publish)
             \cup (IF InProcessing THEN SeqSet(selected_crates) ELSE {}) :
        \A d \in DepClosure(crates, k) :
            d \notin crates_to_exclude /\ crates[d].should_be_published

\* an upload in a run that excludes a crate, in a workspace with an
\* unpublishable crate
C2_Witness ==
    /\ uploaded /= {}
    /\ crates_to_exclude /= {}
    /\ \E k \in DOMAIN crates : ~crates[k].should_be_published
    /\ \E k \in uploaded : crates[k].deps /= {}

\* C5 as stated: with start_from = K no crate ordered strictly before K is
\* touched
C5_NothingBeforeStartFrom ==
    opts.start_from /= None =>
        \A k \in Touched : ~OrderedStrictlyBefore(k, opts.start_from)

\* C5 amended: with start_from = K, a crate ordered strictly before K is
\* touched only if it is a transitive publish-relevant dependency of a
\* selected crate (K or a selected crate after it)
C5_OnlyDependenciesBeforeStartFrom ==
    opts.start_from /= None =>
        \A k \in Touched :
            OrderedStrictlyBefore(k, opts.start_from) =>
                \E s \in SeqSet(selected_crates) : k \in TransDeps(crates, s)

\* start_from = BA with the order A, BB, BA: the dependency A of BA is
\* processed, BB is not
C5_Witness ==
    /\ pc = "done"
    /\ opts.start_from = "BA"
    /\ publish_order = <<"A", "BB", "BA">>
    /\ crates["BA"].deps = {"A"}
    /\ processed_crates = {"A", "BA"}
    /\ packaged = {"A", "BA"}

\* C6: the expanded exclusion set contains the names the user excluded, is
\* closed under dependents, and holds beyond the user's names only crates
\* that transitively depend on one of them
C6_ExclusionClosure ==
    Selected =>
        /\ opts.exclude \subseteq crates_to_exclude
        /\ \A X \in crates_to_exclude : \A Y \in DOMAIN crates :
              X \in crates[Y].deps => Y \in crates_to_exclude
        /\ \A Y \in crates_to_exclude \ opts.exclude :
              TransDeps(crates, Y) \cap opts.exclude /= {}

\* A is excluded and BB depends on it only through BA
C6_Witness ==
    /\ Selected
    /\ opts.exclude = {"A"}
    /\ crates["BA"].deps = {"A"}
    /\ crates["BB"].deps = {"BA"}
    /\ crates_to_exclude = {"A", "BA", "BB"}

\* C7: with a cycle in the publish-relevant graph the run fails right after
\* the order was computed, with no manifest written and nothing packaged or
\* uploaded; the error names the crates on a cycle or depending on one, and
\* all the other crates are ordered
C7_CycleFailsEarly ==
    (pc /= "order" /\ ~Acyclic(crates)) =>
        /\ pc = "failed" /\ error = "order"
        /\ ~wrote_manifest /\ packaged = {} /\ uploaded = {}
        /\ unordered_crates = {k \in DOMAIN crates : ReachesCycle(crates, k)}
        /\ SeqSet(publish_order) = DOMAIN crates \ unordered_crates

\* BA and BB depend on each other, A stands alone and is ordered
C7_Witness ==
    /\ pc = "failed"
    /\ error = "order"
    /\ crates["BA"].deps = {"BB"}
    /\ crates["BB"].deps = {"BA"}
    /\ unordered_crates = {"BA", "BB"}
    /\ publish_order = <<"A">>

(***************************************************************************)
(* Properties of the versions in the processing loop (SpecBump)            *)
(***************************************************************************)
\* the heuristic crate_bump_heuristic records for dep: what the run says the
\* crate was bumped with ("None" when the bump step did not run for it)
BumpedWith(dep) ==
    IF dep \in DOMAIN crate_bump_heuristic THEN crate_bump_heuristic[dep] ELSE "None"

\* the bump step (maybe_bump_version) ran for k
BumpStepRan(k) == k \in DOMAIN crate_log /\ crate_log[k].heuristic /= "None"

HasBumpOverride(k) ==
    k \in opts.crates_to_bump_majorly \cup opts.crates_to_bump_compatibly

HasVersionOption(k) ==
    k \in DOMAIN opts.publish_versions \cup DOMAIN opts.pre_bump_versions

\* C11: when the registry lists no previous version of a crate, the bump
\* step returns None for a current version without a pre-release tag and
\* the current version with its tag stripped otherwise; so a never-published
\* crate whose loaded version has no tag (and that no version option names)
\* is uploaded at exactly the version of its source
C11_BumpWithoutPreviousVersions ==
    \A k \in DOMAIN crate_log :
        LET log == crate_log[k]
        IN log.prev_versions = <<>> =>
             /\ BumpStepRan(k) =>
                    log.bumped = IF log.adjusted.pre = EMPTY
                                 THEN <<>>
                                 ELSE <<Cleared(log.adjusted)>>
             /\ (log.published /\ loaded_version[k].pre = EMPTY /\ ~HasVersionOption(k)) =>
                    log.version = loaded_version[k]

\* a never-published crate without a tag was uploaded at its source version
\* and a never-published crate with a tag was uploaded with the tag stripped
C11_Witness ==
    /\ \E k \in DOMAIN crate_log :
           /\ crate_log[k].prev_versions = <<>>
           /\ BumpStepRan(k)
           /\ crate_log[k].published
           /\ loaded_version[k].pre = EMPTY
           /\ crate_log[k].bumped = <<>>
           /\ crate_log[k].version = loaded_version[k]
    /\ \E k \in DOMAIN crate_log :
           /\ crate_log[k].prev_versions = <<>>
           /\ BumpStepRan(k)
           /\ crate_log[k].published
           /\ loaded_version[k].pre /= EMPTY
           /\ crate_log[k].bumped = <<Cleared(loaded_version[k])>>

\* C12: a crate whose bump step runs without a bump override is bumped
\* Compatible exactly when one of its publish-relevant dependencies was
\* bumped Compatible in this run and none was bumped Breaking; with a
\* dependency bumped Breaking, or with no bumped dependency, it is bumped
\* Breaking
C12_DefaultHeuristic ==
    \A k \in DOMAIN crate_log :
        (BumpStepRan(k) /\ ~HasBumpOverride(k)) =>
            LET deps == deps_to_publish(crates, k)
                any_compatible == \E dep \in deps : BumpedWith(dep) = "Compatible"
                any_breaking == \E dep \in deps : BumpedWith(dep) = "Breaking"
                none_bumped == \A dep \in deps : BumpedWith(dep) = "None"
            IN /\ crate_log[k].heuristic = "Compatible" <=>
                      (any_compatible /\ ~any_breaking)
               /\ (any_breaking \/ none_bumped) => crate_log[k].heuristic = "Breaking"

\* a crate without override has one dependency bumped Compatible and one
\* bumped Breaking, and was bumped Breaking
C12_Witness ==
    \E k \in DOMAIN crate_log :
        /\ BumpStepRan(k)
        /\ ~HasBumpOverride(k)
        /\ \E dep \in deps_to_publish(crates, k) : BumpedWith(dep) = "Compatible"
        /\ \E dep \in deps_to_publish(crates, k) : BumpedWith(dep) = "Breaking"
        /\ crate_log[k].heuristic = "Breaking"

\* C13: a bump override wins over the propagated default: a crate of
\* crates_to_bump_majorly is bumped Breaking (also when it is in
\* crates_to_bump_compatibly or its dependencies were bumped Compatible), a
\* crate only in crates_to_bump_compatibly is bumped Compatible (also when a
\* dependency was bumped Breaking)
C13_OverrideWins ==
    \A k \in DOMAIN crate_log :
        BumpStepRan(k) =>
            LET log == crate_log[k]
                listed == ListedVersions(log.prev_versions)
            IN /\ k \in opts.crates_to_bump_majorly =>
                      /\ log.heuristic = "Breaking"
                      /\ log.bumped = maybe_bump_for_breaking_change(listed, log.adjusted)
               /\ k \in opts.crates_to_bump_compatibly \ opts.crates_to_bump_majorly =>
                      /\ log.heuristic = "Compatible"
                      /\ log.bumped = maybe_bump_for_compatible_change(listed, log.adjusted)

\* a crate in both lists was bumped Breaking, and a dependent of it that is
\* only in crates_to_bump_compatibly was bumped Compatible
C13_Witness ==
    \E k, d \in DOMAIN crate_log :
        /\ d \in deps_to_publish(crates, k)
        /\ d \in opts.crates_to_bump_majorly \cap opts.crates_to_bump_compatibly
        /\ crate_log[d].heuristic = "Breaking"
        /\ k \in opts.crates_to_bump_compatibly \ opts.crates_to_bump_majorly
        /\ crate_log[k].heuristic = "Compatible"

\* C14: every uploaded crate that has a publish_versions entry is uploaded at
\* exactly the version of the entry
C14_PublishVersionIsUploaded ==
    \A k \in DOMAIN crate_log :
        (crate_log[k].published /\ k \in DOMAIN opts.publish_versions) =>
            crate_log[k].version = opts.publish_versions[k]

\* what the code does provide: the entry of a selected crate fixes the
\* uploaded version unless --disable-version-adjustment is given
C14_SelectedPublishVersionIsUploaded ==
    \A k \in DOMAIN crate_log :
        (/\ crate_log[k].published
         /\ k \in DOMAIN opts.publish_versions
         /\ k \in SeqSet(selected_crates)
         /\ ~opts.no_version_adjustment) =>
            crate_log[k].version = opts.publish_versions[k]

(***************************************************************************)
(* Properties of the publisher                                             *)
(***************************************************************************)
\* the crate Crates::publish is working on
PublishingCrate == Head(crates_to_publish)

\* the registry serves the uploaded version of crate k, and so does the
\* index when an index is configured
VisibleInRegistry(k) ==
    /\ registry[k].db
    /\ pub_conf.index_conf => registry[k].index

\* C15: a rate-limited `cargo publish` never fails the crate or the run: it
\* is followed by the backoff of rate_limit_delay seconds and the upload goes
\* on, however many times it happens; and if the registry eventually stops
\* rate limiting for good, every upload eventually ends, in success or in a
\* fatal error
C15_RateLimitedIsRetried ==
    /\ [](last_outcome = "RateLimited" => pc = "upload" /\ error = "")
    /\ [][(pc = "upload" /\ last_outcome' = "RateLimited"
           /\ <<last_outcome, rate_limited_seen, last_publish_elapsed>>
                  /= <<last_outcome', rate_limited_seen', last_publish_elapsed'>>)
          => last_publish_elapsed' = Advance(last_publish_elapsed, rate_limit_delay)]_vars
    /\ (<>[](~rate_limiting)) => [](pc = "upload" => <>(pc /= "upload"))

\* an upload was rate limited as often as is counted and then succeeded
C15_Witness ==
    /\ rate_limited_seen = MaxRateLimitedCounted
    /\ last_outcome = "Ok"
    /\ pc = "await_db"

\* C16: a transient network error is retried while no more than
\* spurious_network_err_limit of them were seen in the upload; the upload
\* fails for such an error only when the error after the eighth is transient
\* as well
C16_TransientErrorRetried ==
    /\ error = "SpuriousNetworkError" =>
           spurious_network_err_count = spurious_network_err_limit + 1
    /\ (last_outcome = "SpuriousNetworkError"
        /\ spurious_network_err_count <= spurious_network_err_limit) =>
           (pc = "upload" /\ error = "")

\* the attempt after eight transient network errors uploaded the crate
C16_Witness ==
    /\ spurious_network_err_count = spurious_network_err_limit
    /\ last_outcome = "Ok"
    /\ PublishingCrate \in uploaded

\* C17: a crate Crates::publish is through with (so that the next one is
\* started) is served by the registry's API and, when an index is
\* configured, has its version in the index; and a 404 from either poll
\* leaves the publisher polling, it is not a failure
C17_NextCrateAfterVisible ==
    /\ \A k \in processed_crates : VisibleInRegistry(k)
    /\ pc = "await_commit" => VisibleInRegistry(PublishingCrate)
    /\ last_status = 404 => (pc \in {"await_db", "await_index"} /\ error = "")

\* the second crate is being uploaded after the first one was polled for with
\* an index configured that knew an older version of it
C17_Witness ==
    /\ pub_conf.index_conf
    /\ "A" \in processed_crates
    /\ registry["A"].listed
    /\ pc = "upload"

\* C18: when --after-publish-delay is given, an upload of a later crate
\* starts no earlier than that many seconds after the instant recorded for
\* the crate before it; the first upload of a run is not delayed; and the
\* instant is only ever recorded for a crate that was uploaded and is visible
C18_PacingBetweenUploads ==
    /\ (pc = "upload" /\ last_publish_elapsed /= {}
        /\ pub_conf.after_publish_delay /= {}) =>
           Unwrap(last_publish_elapsed) >= Unwrap(pub_conf.after_publish_delay)
    /\ (pc = "upload" /\ processed_crates = {}) =>
           (pacing_slept = 0 /\ last_publish_elapsed = {})
    /\ last_instant_crate /= None =>
           (last_instant_crate \in uploaded /\ VisibleInRegistry(last_instant_crate))
    /\ last_publish_elapsed /= {} => last_instant_crate /= None

\* the upload of the second crate is about to be attempted for the first
\* time, after a sleep for the rest of the delay
C18_Witness ==
    /\ pc = "upload"
    /\ last_outcome = "none"
    /\ pacing_slept > 0
    /\ processed_crates /= {}

C20_WriteTwiceIsWriteOnce ==
    pc = "done" => manifest_once = {manifest}

\* the name a dependency entry stands for: its `package` if it has one, its
\* key otherwise
LogicalName(key, entry) ==
    IF ~entry.str /\ "package" \in DOMAIN entry.fields
    THEN entry.fields["package"]
    ELSE key

\* C21: a call of write_dependency_field_value that returns without error
\* leaves, in a matched table entry, every key but the field and the fields
\* to remove with its value; leaves every entry whose logical name is not
\* among deps as it was; and does not write the file when no entry matches
C21_OnlyTheTargetChanges ==
    pc = "second" =>
        /\ DOMAIN manifest = DOMAIN manifest_before
        /\ \A key \in DOMAIN manifest_before :
             LET before == manifest_before[key]
                 after == manifest[key]
             IN /\ LogicalName(key, before) \notin manifest_args.deps => after = before
                /\ (~before.str /\ LogicalName(key, before) \in manifest_args.deps) =>
                       /\ ~after.str
                       /\ \A f \in DOMAIN before.fields \
                                  ({manifest_args.field} \cup manifest_args.fields_to_remove) :
                            f \in DOMAIN after.fields /\ after.fields[f] = before.fields[f]
        /\ (\A key \in DOMAIN manifest_before :
                LogicalName(key, manifest_before[key]) \notin manifest_args.deps) =>
               (~wrote_manifest /\ manifest = manifest_before)

\* the call set the version of a table entry that has a path, which it kept,
\* next to an entry it had to leave alone
C21_Witness ==
    /\ pc = "second"
    /\ wrote_manifest
    /\ manifest_args.field = "version"
    /\ manifest_args.fields_to_remove = {}
    /\ \E key, other \in DOMAIN manifest :
         /\ ~manifest_before[key].str
         /\ LogicalName(key, manifest_before[key]) \in manifest_args.deps
         /\ "path" \in DOMAIN manifest[key].fields
         /\ manifest[key].fields["version"] = manifest_args.field_value
         /\ manifest[key] /= manifest_before[key]
         /\ LogicalName(other, manifest_before[other]) \notin manifest_args.deps

(***************************************************************************)
(* Properties of the verification before publishing                        *)
(***************************************************************************)
\* C23: with --verify-none every upload of the run is invoked with
\* --no-verify, whatever --verify-only, --verify-from and
\* --include-crates-dependents are
C23_VerifyNoneDisablesVerification ==
    opts.verify_none => \A k \in DOMAIN crate_log : crate_log[k].no_verify

\* C24: with --verify-from K and no --verify-only, a crate ordered strictly
\* before K is uploaded with --no-verify, and K and the crates after it are
\* the only ones verified
C24_VerifyFromSkipsEarlierCrates ==
    (opts.verify_from \in SeqSet(publish_order) /\ opts.verify_only = {}) =>
        \A k \in DOMAIN crate_log :
            IndexOf(publish_order, k) < IndexOf(publish_order, opts.verify_from) =>
                crate_log[k].no_verify

(***************************************************************************)
(* Properties of the selection and validation errors                       *)
(***************************************************************************)
\* the errors validate_crates returns for the selected crates, the text of
\* which the run logs before it fails
LoggedValidationErrors ==
    UNION {validate_crates(crates, krate, None, krate, crates_to_exclude, {}) :
              krate \in SeqSet(selected_crates)}

\* C25: when BA depends on A, A is excluded and BA is the one crate to
\* publish, the run fails at validation, before any upload, with an error
\* that names A as the excluded crate and BA as the crate depending on it
C25_ExcludedDependencyIsNamed ==
    (/\ crates["BA"].deps = {"A"}
     /\ crates["A"].deps = {}
     /\ \A k \in DOMAIN crates : crates[k].should_be_published
     /\ opts.exclude = {"A"}
     /\ opts.publish_only = {"BA"}
     /\ opts.start_from = None
     /\ pc \notin {"order", "select", "validate"}) =>
        /\ pc = "failed"
        /\ error = "validation"
        /\ uploaded = {}
        /\ \E err \in LoggedValidationErrors :
             /\ err.kind = "excluded"
             /\ err.krate = "A"
             /\ "BA" \in {err.parent, err.initial}

\* C27: when the options leave no crate selected, the run fails with the
\* selection error, and it has not validated, written a manifest, packaged
\* or uploaded anything
C27_EmptySelectionFails ==
    (pc \notin {"order", "select"} /\ unordered_crates = {} /\ selected_crates = <<>>) =>
        /\ pc = "failed"
        /\ error = "selection"
        /\ ~wrote_manifest
        /\ packaged = {}
        /\ uploaded = {}

\* the run failed for an empty selection because --start-from names a crate
\* that is not among the candidates of --publish-only
C27_Witness ==
    /\ pc = "failed"
    /\ error = "selection"
    /\ selected_crates = <<>>
    /\ opts.publish_only /= {}
    /\ opts.start_from /= None
    /\ opts.start_from \notin opts.publish_only
    /\ opts.exclude = {}

(***************************************************************************)
(* Properties of the workspace loader                                      *)
(***************************************************************************)
\* C26: after a successful load every name in the deps, dev_deps and
\* build_deps of a crate is a key of the workspace, so that a manifest with a
\* path dependency of any kind on a crate outside the workspace fails the load
C26_DependenciesAreWorkspaceMembers ==
    pc = "loaded" =>
        \A k \in DOMAIN crates :
            crates[k].deps \cup crates[k].dev_deps \cup crates[k].build_deps
                \subseteq DOMAIN crates


(***************************************************************************)
(* C29: when the adjust step runs for a crate whose manifest version is C, *)
(* the version H it leaves is the highest of C and the registry's versions *)
(* of the crate that are not yanked, so it is never below C and a yanked   *)
(* version never raises it; the step reports an adjustment exactly when    *)
(* H differs from C; and whenever it reports one, every dependency entry   *)
(* of the workspace naming the crate holds H when change detection runs.   *)
(***************************************************************************)
C29_AdjustToHighestNotYanked ==
    \A k \in DOMAIN crate_log :
        LET log == crate_log[k]
            candidates == {log.before} \cup
                          {log.prev_versions[i].version :
                               i \in {i \in DOMAIN log.prev_versions :
                                          ~log.prev_versions[i].yanked}}
        IN log.adjust_ran =>
               /\ log.adjusted \in candidates
               /\ \A c \in candidates : VersionCmp(c, log.adjusted) /= "Greater"
               /\ log.did_adjust_version = (log.adjusted /= log.before)
               /\ log.did_adjust_version => log.dep_entries = {log.adjusted}
                                            \/ log.dep_entries = {}

\* an adjustment was made for a crate other crates depend on, and their
\* entries carried another version when the workspace was loaded
C29_Witness ==
    \E k \in DOMAIN crate_log :
        /\ crate_log[k].did_adjust_version
        /\ crate_log[k].dep_entries = {crate_log[k].adjusted}
        /\ crate_log[k].adjusted /= loaded_version[k]
        /\ \E d \in DOMAIN crates : k \in crates[d].deps

\* a yanked version, higher than the manifest's, was listed and ignored
C29_WitnessYanked ==
    \E k \in DOMAIN crate_log :
        /\ crate_log[k].adjust_ran
        /\ ~crate_log[k].did_adjust_version
        /\ \E i \in DOMAIN crate_log[k].prev_versions :
               /\ crate_log[k].prev_versions[i].yanked
               /\ VersionCmp(crate_log[k].prev_versions[i].version,
                             crate_log[k].before) = "Greater"


\* how the index of the registry names the file of a crate: the prefix the
\* length of the name selects, then the name, every character lowercased
LowercasedIndexPath(n) ==
    LET lower == [i \in DOMAIN n |-> to_ascii_lowercase(n[i])]
    IN (IF Len(n) = 1 THEN <<"1">>
        ELSE IF Len(n) = 2 THEN <<"2">>
        ELSE IF Len(n) = 3 THEN <<"3", "/", lower[1]>>
        ELSE <<lower[1], lower[2], "/", lower[3], lower[4]>>)
       \o <<"/">> \o lower

(***************************************************************************)
(* C28: the URL requested for a crate named n is index_url/head_sha/ and   *)
(* the index path of n: prefix 1, 2, 3/n[0] or n[0..2]/n[2..4] by the      *)
(* length of n, then n, with every character of the path lowercased, the   *)
(* final name segment included.                                            *)
(***************************************************************************)
C28_IndexPathIsLowercased ==
    pc = "done" /\ metadata_url /= <<>> =>
        metadata_url = IndexUrl \o <<"/">> \o HeadSha \o <<"/">>
                           \o LowercasedIndexPath(index_krate)

(***************************************************************************)
(* C30: the outcome of an upload is decided by the exit status and stderr  *)
(* alone: status zero is success whatever stderr holds; otherwise it is    *)
(* RateLimited when stderr has the rate-limit signature, even next to the  *)
(* transient-network one, else the transient error when stderr has that    *)
(* signature, else the fatal error.                                        *)
(***************************************************************************)
C30_OutcomeClassification ==
    pc = "done" /\ cargo_output /= <<>> =>
        last_outcome =
            IF cargo_output.status = 0 THEN "Ok"
            ELSE IF "You have published too many crates" \in cargo_output.stderr
            THEN "RateLimited"
            ELSE IF "Temporary failure in name resolution" \in cargo_output.stderr
            THEN "SpuriousNetworkError"
            ELSE "Any"

\* a failed upload whose stderr has both signatures was classified
C30_Witness ==
    /\ pc = "done"
    /\ cargo_output /= <<>>
    /\ cargo_output.status /= 0
    /\ {"You have published too many crates",
        "Temporary failure in name resolution"} \subseteq cargo_output.stderr
    /\ last_outcome = "RateLimited"


\* the working tree is the initial commit but for the versions of the
\* processed crates and of the entries that name them
VersionsOnlyDiff ==
    /\ work_tree.packaging = initial_commit.packaging
    /\ \A k \in DOMAIN crates :
           LET toml == work_tree.manifests[k]
               initial == initial_commit.manifests[k]
           IN /\ toml.version = IF k \in processed_crates
                                THEN crates[k].version
                                ELSE initial.version
              /\ toml.dep_path = initial.dep_path
              /\ \A d \in DOMAIN toml.dep_version :
                     toml.dep_version[d] = IF d \in processed_crates
                                           THEN crates[d].version
                                           ELSE initial.dep_version[d]

(***************************************************************************)
(* C22, as stated: after the for_pull_request step the working tree is the *)
(* initial commit except for the package version of each processed crate,  *)
(* which is its final version, and the version field of the entries that   *)
(* name a processed crate; path fields and packaging edits are not in the  *)
(* diff, and nothing else is.                                              *)
(***************************************************************************)
C22_OnlyVersionsDiffer ==
    pc = "pull_request" =>
        /\ VersionsOnlyDiff
        /\ work_tree.lockfile = initial_commit.lockfile

(***************************************************************************)
(* C22, amended: after the for_pull_request step the manifests are those   *)
(* of the initial commit except for the package version of each processed  *)
(* crate and the version field of the entries that name a processed crate, *)
(* both the crate's final version; path fields and packaging edits are not *)
(* in the diff; the lockfile is the one the update command writes for      *)
(* these manifests.                                                        *)
(***************************************************************************)
C22_VersionsAndLockfileDiffer ==
    pc = "pull_request" =>
        /\ VersionsOnlyDiff
        /\ \A k \in DOMAIN crates :
               work_tree.lockfile[k] = work_tree.manifests[k].version

\* the step ran after an upload whose crate got a new version and is named
\* by an entry of another crate
C22_Witness ==
    /\ pc = "pull_request"
    /\ \E k \in uploaded :
           /\ crates[k].version /= loaded_version[k]
           /\ \E d \in DOMAIN crates :
                  /\ k \in crates[d].deps
                  /\ work_tree.manifests[d].dep_version[k] = crates[k].version
                  /\ k \in work_tree.manifests[d].dep_path


(***************************************************************************)
(* C31: when the registry does not have the crate's current version, or    *)
(* has it yanked, change detection answers needs-publish, even if the      *)
(* registry still serves an artifact for the version that is byte-equal to *)
(* the local one.                                                          *)
(***************************************************************************)
C31_YankedNeedsPublishing ==
    \A i \in DOMAIN detect_calls :
        LET call == detect_calls[i]
        IN (/\ call.verdict /= "error"
            /\ (~call.artifact.published \/ call.artifact.yanked)) =>
               call.verdict = "needs-publish"


(***************************************************************************)
(* C32: whenever change detection returns a verdict, the files of the      *)
(* working tree are what they were before the call: the packaging edits    *)
(* were committed as revert-later checkpoints and reverted, the edits      *)
(* that were there before the call are kept.                               *)
(***************************************************************************)
C32_DetectionLeavesTheTree ==
    (pc = "needs_publishing" /\ error = "") => work_tree = git_before.tree

(***************************************************************************)
(* C40: git_checkpoint_revert takes off exactly the longest run of         *)
(* revert-later checkpoints at the tip: what is left is a prefix of the    *)
(* history, its last commit is not a revert-later checkpoint, every commit *)
(* taken off is one, and nothing changes when HEAD is not one;             *)
(* git_checkpoint adds no commit when the working tree is clean.           *)
(***************************************************************************)
C40_RevertTakesTheTipRun ==
    /\ pc = "git_checkpoint_revert" =>
           /\ Len(git_log) <= Len(git_before.log)
           /\ git_log = SubSeq(git_before.log, 1, Len(git_log))
           /\ Last(git_log).msg /= CHECKPOINT_REVERT
           /\ \A i \in (Len(git_log) + 1)..Len(git_before.log) :
                  git_before.log[i].msg = CHECKPOINT_REVERT
           /\ Last(git_before.log).msg /= CHECKPOINT_REVERT =>
                  /\ git_log = git_before.log
                  /\ work_tree = git_before.tree
    /\ (pc = "git_checkpoint" /\ git_before.tree = Last(git_before.log).tree) =>
           git_log = git_before.log

\* two revert-later checkpoints were taken off the tip, and one that lies
\* below another commit stayed
C40_Witness ==
    /\ pc = "git_checkpoint_revert"
    /\ Len(git_before.log) >= Len(git_log) + 2
    /\ \E i \in DOMAIN git_log : git_log[i].msg = CHECKPOINT_REVERT


(***************************************************************************)
(* C33: when a matched table entry has a workspace key, or an entry of the *)
(* section is neither a string nor table-like, the call fails and the      *)
(* manifest on disk is what it was: nothing edited before the error is     *)
(* written.                                                                *)
(***************************************************************************)
C33_FailedWriteChangesNothing ==
    (/\ pc = "second"
     /\ \E key \in DOMAIN manifest_before :
            \/ manifest_before[key] = OtherEntry
            \/ /\ ~manifest_before[key].str
               /\ "workspace" \in DOMAIN manifest_before[key].fields
               /\ LogicalName(key, manifest_before[key]) \in manifest_args.deps) =>
        /\ error = "Err"
        /\ ~wrote_manifest
        /\ manifest = manifest_before

\* the call failed on an entry after another entry had matched and could
\* have been edited
C33_Witness ==
    /\ pc = "second"
    /\ error = "Err"
    /\ manifest = manifest_before
    /\ \E key, other \in DOMAIN manifest_before :
           /\ "workspace" \in DOMAIN manifest_before[key].fields
           /\ key \in manifest_args.deps
           /\ other \in manifest_args.deps
           /\ visit_entry(other, manifest_before[other], manifest_args)
                  \notin {EntryError, manifest_before[other]}


(***************************************************************************)
(* C34: after the stripping, every table entry of the dev-dependencies     *)
(* table that has a path and whose logical name is a dev-dependency but    *)
(* not a dependency has no version, also when several entries stand for    *)
(* the same package; an entry whose logical name is a dependency keeps its *)
(* version; a shorthand entry is unchanged.                                *)
(***************************************************************************)
C34_EveryDevDepIsStripped ==
    pc = "done" =>
        \A key \in DOMAIN manifest_before :
            LET before == manifest_before[key]
                after == manifest[key]
                name == LogicalName(key, before)
            IN /\ (/\ ~before.str
                   /\ "path" \in DOMAIN before.fields
                   /\ name \in manifest_args.dev_deps \ manifest_args.deps) =>
                      "version" \notin DOMAIN after.fields
               /\ name \in manifest_args.deps => after = before
               /\ before.str => after = before


(***************************************************************************)
(* C35: from the moment a crate K is marked processed with its final       *)
(* version V, every manifest of the workspace with a dependency entry on K *)
(* has V as the entry's version and no path field in it, and this holds    *)
(* until the end of a run without for_pull_request.                        *)
(***************************************************************************)
C35_ProcessedVersionIsPropagated ==
    pc /= "pull_request" =>
        \A K \in processed_crates :
            \A d \in DOMAIN crates :
                K \in crates[d].deps =>
                    /\ work_tree.manifests[d].dep_version[K] = crates[K].version
                    /\ K \notin work_tree.manifests[d].dep_path

\* a run without for_pull_request ended after a crate that another crate
\* depends on was uploaded with a new version
C35_Witness ==
    /\ pc = "done"
    /\ ~opts.for_pull_request
    /\ \E K \in uploaded :
           /\ crates[K].version /= loaded_version[K]
           /\ \E d \in DOMAIN crates :
                  /\ K \in crates[d].deps
                  /\ work_tree.manifests[d].dep_version[K] = crates[K].version
                  /\ K \notin work_tree.manifests[d].dep_path


(***************************************************************************)
(* C36: validation goes through every selected crate and keeps one error   *)
(* for each that fails; with at least one error the run fails and no       *)
(* manifest is written and nothing is uploaded; with stop_at_step set to   *)
(* validation and a selection without error the run ends successfully,     *)
(* also with no manifest written and nothing uploaded.                     *)
(***************************************************************************)
C36_ValidationCollectsAllErrors ==
    (pc \notin {"order", "select", "validate"} /\ selected_crates /= <<>>) =>
        /\ DOMAIN crate_log =
               {krate \in SeqSet(selected_crates) :
                   validate_crates(crates, krate, None, krate, crates_to_exclude, {}) /= {}}
        /\ crate_log /= <<>> =>
               /\ pc = "failed"
               /\ error = "validation"
               /\ ~wrote_manifest
               /\ packaged = {}
               /\ uploaded = {}
        /\ (crate_log = <<>> /\ opts.stop_at_step = "validation") =>
               /\ pc = "done"
               /\ error = ""
               /\ ~wrote_manifest
               /\ packaged = {}
               /\ uploaded = {}

\* two of the selected crates failed validation, and both errors were kept
C36_Witness ==
    /\ pc = "failed"
    /\ error = "validation"
    /\ Cardinality(DOMAIN crate_log) >= 2


(***************************************************************************)
(* C37: with publish_only set and include_crates_dependents enabled, the   *)
(* candidates are the least set that holds the crates named by             *)
(* publish_only and every crate that is not excluded, is publishable and   *)
(* depends on a crate of the set; a crate that the expansion added is      *)
(* neither excluded nor unpublishable, and the candidates are listed in    *)
(* publish order (selected_crates is what start_from retains of them).     *)
(***************************************************************************)
IncludeClosed(S) ==
    /\ opts.publish_only \subseteq S
    /\ \A krate \in DOMAIN crates :
           (/\ krate \notin crates_to_exclude
            /\ crates[krate].should_be_published
            /\ \E included_crate \in S : included_crate \in deps_to_publish(crates, krate))
           => krate \in S

LeastIncluded ==
    {krate \in DOMAIN crates :
        \A S \in SUBSET DOMAIN crates : IncludeClosed(S) => krate \in S}

C37_CandidatesAreTheLeastClosedSet ==
    (/\ pc \notin {"order", "select"}
     /\ error /= "order"
     /\ opts.publish_only /= {}
     /\ opts.include_crates_dependents) =>
        /\ IncludeClosed(LeastIncluded)
        /\ selected_crates =
               SelectedCrates(SelectSeq(publish_order, LAMBDA krate : krate \in LeastIncluded),
                              opts, crates_to_exclude)
        /\ \A krate \in SeqSet(selected_crates) \ opts.publish_only :
               krate \notin crates_to_exclude /\ crates[krate].should_be_published
        /\ \A i, j \in DOMAIN selected_crates :
               i < j => \E m, n \in DOMAIN publish_order :
                            /\ m < n
                            /\ publish_order[m] = selected_crates[i]
                            /\ publish_order[n] = selected_crates[j]

\* the expansion took two passes: a candidate was added that depends on no
\* crate named by publish_only
C37_Witness ==
    /\ pc \notin {"order", "select"}
    /\ error /= "order"
    /\ opts.publish_only /= {}
    /\ opts.include_crates_dependents
    /\ opts.start_from = None
    /\ \E krate \in SeqSet(selected_crates) \ opts.publish_only :
           deps_to_publish(crates, krate) \cap opts.publish_only = {}


(***************************************************************************)
(* C38: a crate goes through change detection at most once and is uploaded *)
(* at most once in a run: the crates waiting for detection and upload are  *)
(* pairwise different and none of them is processed, was through detection *)
(* or was uploaded before, whether it is the selected crate or one of its  *)
(* dependencies.                                                           *)
(***************************************************************************)
C38_ProcessedAtMostOnce ==
    pc = "krate" =>
        /\ \A i, j \in DOMAIN crates_to_publish :
               crates_to_publish[i] = crates_to_publish[j] => i = j
        /\ \A i \in DOMAIN crates_to_publish :
               /\ crates_to_publish[i] \notin processed_crates
               /\ crates_to_publish[i] \notin packaged
               /\ crates_to_publish[i] \notin uploaded

\* a crate uploaded for an earlier selected crate is needed again for the
\* current one, which still has crates waiting
C38_Witness ==
    /\ pc = "krate"
    /\ crates_to_publish /= <<>>
    /\ \E j \in 1..(sel_idx - 1) :
           \E krate \in uploaded :
               /\ krate \in SeqSet(what_needs_publishing(crates, selected_crates[j],
                                                         publish_order))
               /\ krate \in SeqSet(what_needs_publishing(crates, selected_crates[sel_idx],
                                                         publish_order))


(***************************************************************************)
(* C39: processed_crates only grows; a crate enters it only by an          *)
(* iteration of the loop over crates_to_publish in which its change        *)
(* detection ran and no step failed (it was found up to date, or it was    *)
(* uploaded and seen in the registry); when a step fails the run is over:  *)
(* the crate is not marked processed and nothing happens afterwards.       *)
(***************************************************************************)
C39_ProcessedOnlyAfterSuccess ==
    /\ [](processed_crates \subseteq packaged)
    /\ []((pc = "failed" /\ error \in ProcessSteps) =>
              /\ crates_to_publish /= <<>>
              /\ Head(crates_to_publish) \notin processed_crates)
    /\ [][/\ pc /= "failed"
          /\ processed_crates \subseteq processed_crates'
          /\ processed_crates' /= processed_crates =>
                 /\ pc = "krate"
                 /\ pc' = "krate"
                 /\ crates_to_publish /= <<>>
                 /\ processed_crates' = processed_crates \cup {Head(crates_to_publish)}
                 /\ Head(crates_to_publish) \in packaged']_vars

\* the propagation of an uploaded crate's version failed after another crate
\* was processed, with a selected crate still to come
C39_Witness ==
    /\ pc = "failed"
    /\ error = "propagation"
    /\ Head(crates_to_publish) \in uploaded
    /\ processed_crates /= {}
    /\ sel_idx < Len(selected_crates)

====
